---- MODULE Spec2Model ----
(***************************************************************************)
(* Model of src/hooks/validate_csv.py: the PostToolUse hook (main), the    *)
(* CSVValidator pipeline (validate and its sixteen checks), the report     *)
(* builder (get_results) and the text projection (format_results).         *)
(*                                                                         *)
(* Text is a sequence of characters; a character is a string: either the   *)
(* character itself ("a", ",", "\n") or a symbolic name for a character    *)
(* that has no TLA+ literal ("NUL" for U+0000, "BOM" for U+FEFF, ...).     *)
(* File contents are sequences of bytes (0..255) and are decoded to text   *)
(* the way the codecs named in read_file decode them.                      *)
(***************************************************************************)
EXTENDS Integers, Sequences, FiniteSets, TLC

(***************************************************************************)
(* Generic sequence helpers (Python slicing, str methods).                 *)
(***************************************************************************)
Min(a, b) == IF a <= b THEN a ELSE b

\* s[:n]
Take(s, n) == SubSeq(s, 1, Min(n, Len(s)))

\* s[n:]
Drop(s, n) == SubSeq(s, Min(n, Len(s)) + 1, Len(s))

\* sum of a sequence of integers
RECURSIVE SumSeq(_)
SumSeq(s) == IF s = <<>> THEN 0 ELSE Head(s) + SumSeq(Tail(s))

\* the indices i (1-based) of s with P(s[i]), ascending
Indices(s, P(_)) == SelectSeq([i \in 1..Len(s) |-> i], LAMBDA i : P(s[i]))

\* step(... step(step(init, s[1]), s[2]) ..., s[Len(s)]): a loop over s.  The
\* range is split in halves and the left half is computed (the comparison
\* demands its value) before the right half starts, so that the nesting of
\* the evaluation grows with log Len(s)
FoldLeft(step(_, _), init, s) ==
  LET RECURSIVE Go(_, _, _)
      Go(acc, lo, hi) ==
        IF lo > hi THEN acc
        ELSE IF lo = hi THEN step(acc, s[lo])
        ELSE LET left == Go(acc, lo, (lo + hi) \div 2)
             IN IF left = left THEN Go(left, ((lo + hi) \div 2) + 1, hi) ELSE left
  IN Go(init, 1, Len(s))

\* x in s (Python list membership)
InSeq(x, s) == \E i \in 1..Len(s) : s[i] = x

\* s.startswith(p)
StartsWith(s, p) == Len(s) >= Len(p) /\ SubSeq(s, 1, Len(p)) = p

\* s.endswith(p)
EndsWith(s, p) == Len(s) >= Len(p) /\ SubSeq(s, Len(s) - Len(p) + 1, Len(s)) = p

\* s.count(c) for a single character c
CountChar(s, c) == Cardinality({i \in 1..Len(s) : s[i] = c})

\* c in s for a single character c
HasChar(s, c) == \E i \in 1..Len(s) : s[i] = c

\* p in s for a substring p
HasSub(s, p) == \E i \in 1..(Len(s) - Len(p) + 1) : SubSeq(s, i, i + Len(p) - 1) = p

\* s.find(p) + 1 for a substring p that occurs in s
Find(s, p) ==
  CHOOSE i \in 1..(Len(s) - Len(p) + 1) :
    /\ SubSeq(s, i, i + Len(p) - 1) = p
    /\ \A j \in 1..(i - 1) : SubSeq(s, j, j + Len(p) - 1) # p

\* s.count(p) for a non-empty substring p: non-overlapping occurrences, left to right
RECURSIVE CountSub(_, _)
CountSub(s, p) ==
  IF ~HasSub(s, p) THEN 0
  ELSE 1 + CountSub(Drop(s, Find(s, p) + Len(p) - 1), p)

(***************************************************************************)
(* Characters.                                                             *)
(***************************************************************************)
\* code point -> character: ASCII and the named characters the checks look for
ChrTable ==
  { <<0, "NUL">>, <<9, "\t">>, <<10, "\n">>, <<11, "VT">>, <<12, "FF">>, <<13, "\r">>,
    <<32, " ">>, <<33, "!">>, <<34, "\"">>, <<35, "#">>, <<36, "$">>, <<37, "%">>,
    <<38, "&">>, <<39, "'">>, <<40, "(">>, <<41, ")">>, <<42, "*">>, <<43, "+">>,
    <<44, ",">>, <<45, "-">>, <<46, ".">>, <<47, "/">>, <<48, "0">>, <<49, "1">>,
    <<50, "2">>, <<51, "3">>, <<52, "4">>, <<53, "5">>, <<54, "6">>, <<55, "7">>,
    <<56, "8">>, <<57, "9">>, <<58, ":">>, <<59, ";">>, <<60, "<">>, <<61, "=">>,
    <<62, ">">>, <<63, "?">>, <<64, "@">>, <<65, "A">>, <<66, "B">>, <<67, "C">>,
    <<68, "D">>, <<69, "E">>, <<70, "F">>, <<71, "G">>, <<72, "H">>, <<73, "I">>,
    <<74, "J">>, <<75, "K">>, <<76, "L">>, <<77, "M">>, <<78, "N">>, <<79, "O">>,
    <<80, "P">>, <<81, "Q">>, <<82, "R">>, <<83, "S">>, <<84, "T">>, <<85, "U">>,
    <<86, "V">>, <<87, "W">>, <<88, "X">>, <<89, "Y">>, <<90, "Z">>, <<91, "[">>,
    <<92, "\\">>, <<93, "]">>, <<94, "^">>, <<95, "_">>, <<96, "GRAVE">>, <<97, "a">>,
    <<98, "b">>, <<99, "c">>, <<100, "d">>, <<101, "e">>, <<102, "f">>, <<103, "g">>,
    <<104, "h">>, <<105, "i">>, <<106, "j">>, <<107, "k">>, <<108, "l">>, <<109, "m">>,
    <<110, "n">>, <<111, "o">>, <<112, "p">>, <<113, "q">>, <<114, "r">>, <<115, "s">>,
    <<116, "t">>, <<117, "u">>, <<118, "v">>, <<119, "w">>, <<120, "x">>, <<121, "y">>,
    <<122, "z">>, <<123, "{">>, <<124, "|">>, <<125, "}">>, <<126, "~">>, <<160, "NBSP">>,
    <<8232, "LS">>, <<8233, "PS">>, <<65279, "BOM">>, <<65533, "REPL">> }

chr(cp) ==
  IF \E p \in ChrTable : p[1] = cp
  THEN (CHOOSE p \in ChrTable : p[1] = cp)[2]
  ELSE "U+" \o ToString(cp)

\* character -> code point (the encoder used to build file bytes from text)
ord(c) == (CHOOSE p \in ChrTable : p[2] = c)[1]

\* str.isspace() characters, as str.strip() removes them
Whitespace == {" ", "\t", "\n", "\r", "VT", "FF", "NBSP", "LS", "PS"}

\* line boundaries of str.splitlines()
LineBreaks == {"\n", "\r", "VT", "FF", "LS", "PS"}

Digits == {"0", "1", "2", "3", "4", "5", "6", "7", "8", "9"}

UpperToLower ==
  { <<"A", "a">>, <<"B", "b">>, <<"C", "c">>, <<"D", "d">>, <<"E", "e">>, <<"F", "f">>,
    <<"G", "g">>, <<"H", "h">>, <<"I", "i">>, <<"J", "j">>, <<"K", "k">>, <<"L", "l">>,
    <<"M", "m">>, <<"N", "n">>, <<"O", "o">>, <<"P", "p">>, <<"Q", "q">>, <<"R", "r">>,
    <<"S", "s">>, <<"T", "t">>, <<"U", "u">>, <<"V", "v">>, <<"W", "w">>, <<"X", "x">>,
    <<"Y", "y">>, <<"Z", "z">> }

\* c.lower()
LowerChar(c) ==
  IF \E p \in UpperToLower : p[1] = c
  THEN (CHOOSE p \in UpperToLower : p[1] = c)[2]
  ELSE c

\* s.lower()
Lower(s) == [i \in 1..Len(s) |-> LowerChar(s[i])]

\* s.lstrip()
RECURSIVE LStrip(_)
LStrip(s) == IF s # <<>> /\ Head(s) \in Whitespace THEN LStrip(Tail(s)) ELSE s

\* s.rstrip()
RECURSIVE RStrip(_)
RStrip(s) ==
  IF s # <<>> /\ s[Len(s)] \in Whitespace THEN RStrip(SubSeq(s, 1, Len(s) - 1)) ELSE s

\* s.strip()
Strip(s) == RStrip(LStrip(s))

\* s.split(sep) for a single character sep: always at least one piece, the
\* pieces lie between the occurrences of sep
Split(s, sep) ==
  LET at == SelectSeq([i \in 1..Len(s) |-> i], LAMBDA i : s[i] = sep)
      from(k) == IF k = 1 THEN 1 ELSE at[k - 1] + 1
      to(k) == IF k > Len(at) THEN Len(s) ELSE at[k] - 1
  IN [k \in 1..(Len(at) + 1) |-> SubSeq(s, from(k), to(k))]

\* s.splitlines(keepends=True): "\r\n" is one boundary, no empty last line;
\* a line ends at every line break that is not the "\r" of a "\r\n"
SplitLines(s) ==
  LET ends == SelectSeq([i \in 1..Len(s) |-> i],
                        LAMBDA i : /\ s[i] \in LineBreaks
                                   /\ ~(s[i] = "\r" /\ i < Len(s) /\ s[i + 1] = "\n"))
      from(k) == IF k = 1 THEN 1 ELSE ends[k - 1] + 1
      last == IF ends = <<>> THEN 0 ELSE ends[Len(ends)]
  IN [k \in 1..Len(ends) |-> SubSeq(s, from(k), ends[k])]
     \o (IF last < Len(s) THEN <<SubSeq(s, last + 1, Len(s))>> ELSE <<>>)

\* sep.join(parts) for a separator string sep
RECURSIVE Join(_, _)
Join(parts, sep) ==
  IF parts = <<>> THEN <<>>
  ELSE IF Len(parts) = 1 THEN parts[1]
  ELSE parts[1] \o sep \o Join(Tail(parts), sep)

(***************************************************************************)
(* Codecs: bytes -> code points.  A decoder returns <<"ok", cps>> or       *)
(* <<"UnicodeDecodeError">>, as the codec used by open(..., encoding=e)    *)
(* does on f.read().                                                       *)
(***************************************************************************)
DecodeError == <<"UnicodeDecodeError">>

Decoded(cps) == <<"ok", cps>>

\* prepend one code point to the result of decoding the rest
Cons(cp, rest) == IF rest = DecodeError THEN DecodeError ELSE Decoded(<<cp>> \o rest[2])

IsCont(b) == b >= 128 /\ b <= 191

IsSurrogate(cp) == cp >= 55296 /\ cp <= 57343

\* the number of leading bytes below 0x80
AsciiRun(bs) ==
  IF \A i \in 1..Len(bs) : bs[i] < 128 THEN Len(bs)
  ELSE (CHOOSE i \in 1..Len(bs) : bs[i] >= 128 /\ \A j \in 1..(i - 1) : bs[j] < 128) - 1

\* prepend code points to the result of decoding the rest
Prepend(cps, rest) == IF rest = DecodeError THEN DecodeError ELSE Decoded(cps \o rest[2])

\* a run of ASCII bytes decodes to itself
RECURSIVE DecodeUtf8(_)
DecodeUtf8(bs) ==
  IF bs = <<>> THEN Decoded(<<>>)
  ELSE LET b1 == bs[1] IN
    IF b1 < 128
    THEN Prepend(Take(bs, AsciiRun(bs)), DecodeUtf8(Drop(bs, AsciiRun(bs))))
    ELSE IF b1 >= 194 /\ b1 <= 223
      THEN IF Len(bs) >= 2 /\ IsCont(bs[2])
           THEN Cons((b1 - 192) * 64 + (bs[2] - 128), DecodeUtf8(Drop(bs, 2)))
           ELSE DecodeError
    ELSE IF b1 >= 224 /\ b1 <= 239
      THEN IF /\ Len(bs) >= 3 /\ IsCont(bs[2]) /\ IsCont(bs[3])
              /\ (b1 = 224 => bs[2] >= 160)
              /\ (b1 = 237 => bs[2] <= 159)
           THEN Cons((b1 - 224) * 4096 + (bs[2] - 128) * 64 + (bs[3] - 128),
                     DecodeUtf8(Drop(bs, 3)))
           ELSE DecodeError
    ELSE IF b1 >= 240 /\ b1 <= 244
      THEN IF /\ Len(bs) >= 4 /\ IsCont(bs[2]) /\ IsCont(bs[3]) /\ IsCont(bs[4])
              /\ (b1 = 240 => bs[2] >= 144)
              /\ (b1 = 244 => bs[2] <= 143)
           THEN Cons((b1 - 240) * 262144 + (bs[2] - 128) * 4096
                       + (bs[3] - 128) * 64 + (bs[4] - 128),
                     DecodeUtf8(Drop(bs, 4)))
           ELSE DecodeError
    ELSE DecodeError

\* utf-8-sig: a leading EF BB BF is removed, then utf-8
DecodeUtf8Sig(bs) ==
  IF StartsWith(bs, <<239, 187, 191>>) THEN DecodeUtf8(Drop(bs, 3)) ELSE DecodeUtf8(bs)

\* utf-16-le / utf-16-be: the byte order is fixed by the name, a leading
\* byte-order mark is not removed (it decodes to U+FEFF)
RECURSIVE DecodeUtf16(_, _)
DecodeUtf16(bs, little) ==
  IF bs = <<>> THEN Decoded(<<>>)
  ELSE IF Len(bs) < 2 THEN DecodeError
  ELSE LET unit(i) == IF little THEN bs[i] + 256 * bs[i + 1] ELSE 256 * bs[i] + bs[i + 1]
           u1 == unit(1)
       IN IF ~IsSurrogate(u1) THEN Cons(u1, DecodeUtf16(Drop(bs, 2), little))
          ELSE IF u1 <= 56319 /\ Len(bs) >= 4 /\ unit(3) >= 56320 /\ unit(3) <= 57343
               THEN Cons(65536 + (u1 - 55296) * 1024 + (unit(3) - 56320),
                         DecodeUtf16(Drop(bs, 4), little))
               ELSE DecodeError

\* utf-32-le / utf-32-be
RECURSIVE DecodeUtf32(_, _)
DecodeUtf32(bs, little) ==
  IF bs = <<>> THEN Decoded(<<>>)
  ELSE IF Len(bs) < 4 THEN DecodeError
  ELSE LET cp == IF little
                 THEN bs[1] + 256 * bs[2] + 65536 * bs[3] + 16777216 * bs[4]
                 ELSE 16777216 * bs[1] + 65536 * bs[2] + 256 * bs[3] + bs[4]
       IN IF cp > 1114111 \/ IsSurrogate(cp) THEN DecodeError
          ELSE Cons(cp, DecodeUtf32(Drop(bs, 4), little))

\* latin-1 and its alias iso-8859-1: every byte is its own code point
DecodeLatin1(bs) == Decoded(bs)

\* cp1252: 0x80..0x9F are remapped, five of them are undefined
Cp1252High ==
  << 8364, -1, 8218, 402, 8222, 8230, 8224, 8225, 710, 8240, 352, 8249, 338, -1, 381, -1,
     -1, 8216, 8217, 8220, 8221, 8226, 8211, 8212, 732, 8482, 353, 8250, 339, -1, 382, 376 >>

RECURSIVE DecodeCp1252(_)
DecodeCp1252(bs) ==
  IF bs = <<>> THEN Decoded(<<>>)
  ELSE LET b == bs[1]
           cp == IF b >= 128 /\ b <= 159 THEN Cp1252High[b - 127] ELSE b
       IN IF cp = -1 THEN DecodeError ELSE Cons(cp, DecodeCp1252(Tail(bs)))

Decode(bs, encoding) ==
  CASE encoding = "utf-8"      -> DecodeUtf8(bs)
    [] encoding = "utf-8-sig"  -> DecodeUtf8Sig(bs)
    [] encoding = "utf-16-le"  -> DecodeUtf16(bs, TRUE)
    [] encoding = "utf-16-be"  -> DecodeUtf16(bs, FALSE)
    [] encoding = "utf-32-le"  -> DecodeUtf32(bs, TRUE)
    [] encoding = "utf-32-be"  -> DecodeUtf32(bs, FALSE)
    [] encoding = "latin-1"    -> DecodeLatin1(bs)
    [] encoding = "cp1252"     -> DecodeCp1252(bs)
    [] encoding = "iso-8859-1" -> DecodeLatin1(bs)

\* code points -> text
ToText(cps) == [i \in 1..Len(cps) |-> chr(cps[i])]

\* the UTF-8 bytes of an ASCII text (how the model's input files are written)
AsciiBytes(text) == [i \in 1..Len(text) |-> ord(text[i])]

(***************************************************************************)
(* CSVValidator._detect_encoding_from_bytes                                *)
(***************************************************************************)
NoEncoding == "None"

\* bytes examined by the null-byte heuristic
NullSampleLimit == 1000

\* sum(1 for i in range(first, limit, 2) if raw_bytes[i:i+1] == b"\x00"), 0-based i
NullsFrom(raw_bytes, first) ==
  Cardinality({i \in 0..(Min(Len(raw_bytes), NullSampleLimit) - 1) :
                 i >= first /\ (i - first) % 2 = 0 /\ raw_bytes[i + 1] = 0})

\* a detection that tests the two-byte marks before the four-byte ones
_detect_encoding_from_bytes_ShortMarksFirst(raw_bytes) ==
  IF StartsWith(raw_bytes, <<255, 254>>) THEN "utf-16-le"
  ELSE IF StartsWith(raw_bytes, <<254, 255>>) THEN "utf-16-be"
  ELSE IF StartsWith(raw_bytes, <<255, 254, 0, 0>>) THEN "utf-32-le"
  ELSE IF StartsWith(raw_bytes, <<0, 0, 254, 255>>) THEN "utf-32-be"
  ELSE IF StartsWith(raw_bytes, <<239, 187, 191>>) THEN "utf-8-sig"
  ELSE NoEncoding

_detect_encoding_from_bytes(raw_bytes) ==
  IF StartsWith(raw_bytes, <<255, 254, 0, 0>>) THEN "utf-32-le"
  ELSE IF StartsWith(raw_bytes, <<0, 0, 254, 255>>) THEN "utf-32-be"
  ELSE IF StartsWith(raw_bytes, <<255, 254>>) THEN "utf-16-le"
  ELSE IF StartsWith(raw_bytes, <<254, 255>>) THEN "utf-16-be"
  ELSE IF StartsWith(raw_bytes, <<239, 187, 191>>) THEN "utf-8-sig"
  ELSE IF Len(raw_bytes) >= 4
    THEN LET even_nulls  == NullsFrom(raw_bytes, 0)
             odd_nulls   == NullsFrom(raw_bytes, 1)
             sample_size == Min(Len(raw_bytes), NullSampleLimit) \div 2
         IN \* ratio > 0.4 is 10*nulls > 4*sample_size; ratio < 0.1 is 10*nulls < sample_size
            IF sample_size > 0 /\ 10 * odd_nulls > 4 * sample_size
                               /\ 10 * even_nulls < sample_size
            THEN "utf-16-le"
            ELSE IF sample_size > 0 /\ 10 * even_nulls > 4 * sample_size
                                    /\ 10 * odd_nulls < sample_size
            THEN "utf-16-be"
            ELSE NoEncoding
    ELSE NoEncoding

(***************************************************************************)
(* Findings (add_error / add_warning).  A finding is the dict built by     *)
(* add_error: category, message, the keyword extras in call order, and the *)
(* optional line and column (<<>> when the key is absent).  A message is a *)
(* tuple: the format string's name followed by the values formatted in.    *)
(***************************************************************************)
Finding(category, message, line, column, extra) ==
  [category |-> category, message |-> message, extra |-> extra,
   line |-> line, column |-> column]

add_error(errs, category, message, line, column, extra) ==
  Append(errs, Finding(category, message, line, column, extra))

\* a variant that puts the new finding in front of the list
add_warning_Prepends(warns, category, message, line, column, extra) ==
  <<Finding(category, message, line, column, extra)>> \o warns

add_warning(warns, category, message, line, column, extra) ==
  Append(warns, Finding(category, message, line, column, extra))

\* "key" in finding, finding["key"] for the keyword extras
HasExtra(f, key) == \E i \in 1..Len(f.extra) : f.extra[i][1] = key

GetExtra(f, key) == f.extra[CHOOSE i \in 1..Len(f.extra) : f.extra[i][1] = key][2]

None == <<>>

(***************************************************************************)
(* JSON values of the hook input.                                          *)
(***************************************************************************)
JNull == <<"null">>

JStr(s) == <<"str", s>>

JArr == <<"array">>

JObj(fields) == <<"object", fields>>

IsObj(v) == v[1] = "object"

IsStr(v) == v[1] = "str"

\* d.get(key, default)
DictGet(d, key, default) == IF key \in DOMAIN d[2] THEN d[2][key] ELSE default

(***************************************************************************)
(* State.                                                                  *)
(***************************************************************************)
VARIABLES
  \* environment
  stdin,            \* <<"invalid">> or <<"json", value>>: what json.load reads
  file_status,      \* "missing" | "not_a_file" | "unreadable" | "ok"
  file_bytes,       \* the bytes of the target file
  open_error,       \* TRUE when open(file_path, "rb") raises
  read_errors,      \* the text-mode read attempts (by position) that raise a non-decode exception
  sniffer,          \* what csv.Sniffer().sniff returns for this file's sample
  \* main
  pc, tool_name, file_path, results, output, stderr, exit_code,
  \* CSVValidator
  errors, warnings, raw_content, lines, rows, headers, detected_dialect,
  detected_encoding, is_tsv, metadata_rows_detected, metadata_row_count,
  \* repeated invocation on the same file
  run, first_results

env_vars == <<stdin, file_status, file_bytes, open_error, read_errors, sniffer>>

main_vars == <<tool_name, file_path, results, output, stderr, exit_code>>

text_vars == <<raw_content, lines, detected_encoding>>

parse_vars == <<rows, headers, detected_dialect, is_tsv>>

meta_vars == <<metadata_rows_detected, metadata_row_count>>

run_vars == <<run, first_results>>

vars == <<env_vars, pc, main_vars, errors, warnings, text_vars, parse_vars, meta_vars, run_vars>>

\* CSVValidator.__init__
ValidatorInit ==
  /\ errors = <<>>
  /\ warnings = <<>>
  /\ raw_content = <<>>
  /\ lines = <<>>
  /\ rows = <<>>
  /\ headers = <<>>
  /\ detected_dialect = None
  /\ detected_encoding = ""
  /\ is_tsv = FALSE
  /\ metadata_rows_detected = FALSE
  /\ metadata_row_count = 0

\* process start, before main has read its input
ProcessInit ==
  /\ pc = "main"
  /\ tool_name = ""
  /\ file_path = <<>>
  /\ results = None
  /\ output = <<>>
  /\ stderr = <<>>
  /\ exit_code = None
  /\ ValidatorInit

(***************************************************************************)
(* main, lines 830-856: read the hook input, filter, construct validator.  *)
(* An uncaught exception ends the process with a traceback on standard     *)
(* error and exit status 1.                                                *)
(***************************************************************************)
ValidatedTools == {"Read", "Write", "Edit"}

Exit(code) ==
  /\ pc' = "done"
  /\ exit_code' = <<code>>

Crash(exception) ==
  /\ stderr' = << <<"Traceback", exception>> >>
  /\ Exit(1)

\* lower_path.endswith(".csv") or lower_path.endswith(".tsv")
IsCsvPath(path) ==
  LET lower_path == Lower(path)
  IN \/ EndsWith(lower_path, <<".", "c", "s", "v">>)
     \/ EndsWith(lower_path, <<".", "t", "s", "v">>)

main_read_input ==
  /\ pc = "main"
  /\ IF stdin = <<"invalid">>
     THEN \* json.JSONDecodeError: exit silently
          Exit(0) /\ UNCHANGED <<tool_name, file_path, stderr>>
     ELSE LET hook_input == stdin[2] IN
       IF ~IsObj(hook_input)
       THEN \* hook_input.get on a list, str, number or None
            Crash("AttributeError") /\ UNCHANGED <<tool_name, file_path>>
       ELSE LET name == DictGet(hook_input, "tool_name", JStr(""))
                tool_input == DictGet(hook_input, "tool_input", JObj(<<>>))
            IN
         IF ~(IsStr(name) /\ name[2] \in ValidatedTools)
         THEN Exit(0) /\ UNCHANGED <<tool_name, file_path, stderr>>
         ELSE IF ~IsObj(tool_input)
         THEN \* tool_input.get on None
              Crash("AttributeError") /\ UNCHANGED <<tool_name, file_path>>
         ELSE LET path == DictGet(tool_input, "file_path", JStr(<<>>)) IN
           IF ~IsStr(path)
           THEN \* file_path.lower() on None
                Crash("AttributeError") /\ UNCHANGED <<tool_name, file_path>>
           ELSE IF ~IsCsvPath(path[2])
           THEN Exit(0) /\ UNCHANGED <<tool_name, file_path, stderr>>
           ELSE /\ tool_name' = name[2]
                /\ file_path' = path[2]
                /\ pc' = "check_file_exists"
                /\ UNCHANGED <<stderr, exit_code>>
  /\ UNCHANGED <<env_vars, results, output, errors, warnings, text_vars, parse_vars,
                 meta_vars, run_vars>>

(***************************************************************************)
(* CSVValidator.check_file_exists and validate's first early return.       *)
(***************************************************************************)
check_file_exists ==
  /\ pc = "check_file_exists"
  /\ IF file_status = "missing"
     THEN /\ errors' = add_error(errors, "file", <<"File does not exist", file_path>>,
                                 None, None, <<>>)
          /\ pc' = "get_results"
     ELSE IF file_status = "not_a_file"
     THEN /\ errors' = add_error(errors, "file", <<"Path is not a file", file_path>>,
                                 None, None, <<>>)
          /\ pc' = "get_results"
     ELSE IF file_status = "unreadable"
     THEN /\ errors' = add_error(errors, "file", <<"File is not readable", file_path>>,
                                 None, None, <<>>)
          /\ pc' = "get_results"
     ELSE /\ pc' = "read_file"
          /\ UNCHANGED errors
  /\ UNCHANGED <<env_vars, main_vars, warnings, text_vars, parse_vars, meta_vars, run_vars>>

(***************************************************************************)
(* CSVValidator.read_file and validate's second early return.              *)
(***************************************************************************)
\* bytes read for encoding detection
DetectionReadSize == 4096

FallbackEncodings == <<"utf-8", "utf-8-sig", "latin-1", "cp1252", "iso-8859-1">>

ConvertSuggestion == "Consider converting to UTF-8 for better compatibility"

\* encoding.startswith("utf-16")
IsUtf16Name(encoding) == encoding \in {"utf-16-le", "utf-16-be"}

\* the warning of lines 126-138 for a successfully read encoding
EncodingWarning(warns, encoding) ==
  IF encoding \in {"utf-8", "utf-8-sig"} THEN warns
  ELSE IF IsUtf16Name(encoding)
  THEN add_warning(warns, "encoding", <<"File is {} encoded", encoding>>, None, None,
                   << <<"suggestion", ConvertSuggestion>> >>)
  ELSE add_warning(warns, "encoding", <<"File not in UTF-8 encoding, detected", encoding>>,
                   None, None, << <<"suggestion", ConvertSuggestion>> >>)

\* a read loop that skips every failed attempt silently
RECURSIVE ReadLoop_Silent(_, _, _, _, _)
ReadLoop_Silent(encodings, i, bytes, failures, errs) ==
  IF i > Len(encodings) THEN [ok |-> FALSE, errors |-> errs]
  ELSE IF i \in failures
  THEN ReadLoop_Silent(encodings, i + 1, bytes, failures, errs)
  ELSE LET d == Decode(bytes, encodings[i]) IN
    IF d = DecodeError
    THEN ReadLoop_Silent(encodings, i + 1, bytes, failures, errs)
    ELSE [ok |-> TRUE, errors |-> errs, encoding |-> encodings[i], content |-> ToText(d[2])]

\* the for loop of lines 119-146 from attempt i on: the first read that
\* succeeds wins; a decode error is skipped silently, any other exception
\* is recorded as a "file" error and skipped
RECURSIVE ReadLoop(_, _, _, _, _)
ReadLoop(encodings, i, bytes, failures, errs) ==
  IF i > Len(encodings) THEN [ok |-> FALSE, errors |-> errs]
  ELSE IF i \in failures
  THEN ReadLoop(encodings, i + 1, bytes, failures,
                add_error(errs, "file", <<"Error reading file with", encodings[i]>>,
                          None, None, <<>>))
  ELSE LET d == Decode(bytes, encodings[i]) IN
    IF d = DecodeError
    THEN ReadLoop(encodings, i + 1, bytes, failures, errs)
    ELSE [ok |-> TRUE, errors |-> errs, encoding |-> encodings[i], content |-> ToText(d[2])]

\* an order of attempts that tries the byte-signal encoding last
EncodingsToTry_SignalLast(bytes) ==
  LET raw_bytes == Take(bytes, DetectionReadSize)
      detected  == _detect_encoding_from_bytes(raw_bytes)
  IN FallbackEncodings \o (IF detected # NoEncoding THEN <<detected>> ELSE <<>>)

\* lines 100-117: the encodings tried, in order
EncodingsToTry(bytes) ==
  LET raw_bytes == Take(bytes, DetectionReadSize)
      detected  == _detect_encoding_from_bytes(raw_bytes)
  IN (IF detected # NoEncoding THEN <<detected>> ELSE <<>>) \o FallbackEncodings

read_file ==
  /\ pc = "read_file"
  /\ IF open_error
     THEN /\ errors' = add_error(errors, "file", <<"Error reading file">>, None, None, <<>>)
          /\ pc' = "get_results"
          /\ UNCHANGED <<warnings, text_vars>>
     ELSE \E r \in {ReadLoop(EncodingsToTry(file_bytes), 1, file_bytes, read_errors, errors)} :
             IF r.ok
             THEN /\ raw_content' = r.content
                  /\ detected_encoding' = r.encoding
                  /\ warnings' = EncodingWarning(warnings, r.encoding)
                  /\ lines' = SplitLines(r.content)
                  /\ errors' = r.errors
                  /\ pc' = "check_encoding_issues"
             ELSE /\ errors' = add_error(r.errors, "encoding",
                                         <<"Could not decode file with any common encoding">>,
                                         None, None, <<>>)
                  /\ pc' = "get_results"
                  /\ UNCHANGED <<warnings, text_vars>>
  /\ UNCHANGED <<env_vars, main_vars, parse_vars, meta_vars, run_vars>>

(***************************************************************************)
(* Early checks on the decoded text.                                       *)
(***************************************************************************)
\* a display that is never cut short
Truncated_ShowsAll(items, n) == <<items, Len(items) > n>>

\* str(items[:n]) + ("..." if len(items) > n else "")
Truncated(items, n) == <<Take(items, n), Len(items) > n>>

check_encoding_issues ==
  /\ pc = "check_encoding_issues"
  /\ LET positions == [k \in 1..Len(Indices(raw_content, LAMBDA c : c = "NUL")) |->
                         Indices(raw_content, LAMBDA c : c = "NUL")[k] - 1]
         e1 == IF HasChar(raw_content, "NUL") /\ ~IsUtf16Name(detected_encoding)
               THEN add_error(errors, "encoding",
                              <<"File contains null bytes at positions", Truncated(positions, 10)>>,
                              None, None,
                              << <<"count", Len(positions)>>,
                                 <<"suggestion",
                                   "This may indicate UTF-16 encoding read as single-byte encoding">> >>)
               ELSE errors
         e2 == IF HasChar(raw_content, "REPL")
               THEN add_error(e1, "encoding",
                              <<"File contains {} replacement characters (encoding errors)",
                                CountChar(raw_content, "REPL")>>,
                              None, None, <<>>)
               ELSE e1
     IN errors' = e2
  /\ pc' = "check_bom"
  /\ UNCHANGED <<env_vars, main_vars, warnings, text_vars, parse_vars, meta_vars, run_vars>>

check_bom ==
  /\ pc = "check_bom"
  /\ warnings' = IF StartsWith(raw_content, <<"BOM">>)
                 THEN add_warning(warnings, "encoding",
                                  <<"File contains UTF-8 BOM (Byte Order Mark)">>,
                                  <<1>>, None, <<>>)
                 ELSE warnings
  /\ pc' = "check_line_endings"
  /\ UNCHANGED <<env_vars, main_vars, errors, text_vars, parse_vars, meta_vars, run_vars>>

check_line_endings ==
  /\ pc = "check_line_endings"
  /\ LET crlf_count    == CountSub(raw_content, <<"\r", "\n">>)
         lf_only_count == CountChar(raw_content, "\n") - crlf_count
         cr_only_count == CountChar(raw_content, "\r") - crlf_count
         endings == (IF crlf_count > 0 THEN << <<"CRLF", crlf_count>> >> ELSE <<>>)
                      \o (IF lf_only_count > 0 THEN << <<"LF", lf_only_count>> >> ELSE <<>>)
                      \o (IF cr_only_count > 0 THEN << <<"CR", cr_only_count>> >> ELSE <<>>)
     IN warnings' = IF Len(endings) > 1
                    THEN add_warning(warnings, "format",
                                     <<"Inconsistent line endings detected", endings>>,
                                     None, None, <<>>)
                    ELSE warnings
  /\ pc' = "check_empty_file"
  /\ UNCHANGED <<env_vars, main_vars, errors, text_vars, parse_vars, meta_vars, run_vars>>

check_empty_file ==
  /\ pc = "check_empty_file"
  /\ errors' = IF Strip(raw_content) = <<>>
               THEN add_error(errors, "content",
                              <<"File is empty or contains only whitespace">>, None, None, <<>>)
               ELSE errors
  /\ pc' = "detect_dialect"
  /\ UNCHANGED <<env_vars, main_vars, warnings, text_vars, parse_vars, meta_vars, run_vars>>

(***************************************************************************)
(* CSVValidator._detect_delimiter.  Scores are Python floats; the model    *)
(* keeps them as exact fractions num/den (den > 0) and compares them by    *)
(* cross-multiplication.                                                   *)
(***************************************************************************)
\* a candidate list without the pipe
Delimiters_NoPipe == <<",", "\t", ";">>

Delimiters == <<",", "\t", ";", "|">>

\* characters of the text handed to the delimiter detection
DialectSampleSize == 8192

\* candidate lines kept for scoring
MaxCandidateLines == 30

Frac(n, d) == [num |-> n, den |-> d]

FracGT(a, b) == a.num * b.den > b.num * a.den

\* lines 281-299: the stripped candidate lines
CandidateLines(sample) ==
  LET all_lines == Split(sample, "\n")
      stripped  == [i \in 1..Len(all_lines) |-> Strip(all_lines[i])]
      non_empty == SelectSeq(stripped, LAMBDA l : l # <<>>)
      with_delimiter ==
        SelectSeq(non_empty, LAMBDA l : \E k \in 1..Len(Delimiters) : HasChar(l, Delimiters[k]))
      first == Take(with_delimiter, MaxCandidateLines)
  IN IF Len(first) < 2 THEN Take(non_empty, MaxCandidateLines) ELSE first

\* lines 308-341: the score of one delimiter, or None when it is skipped
DelimiterScore(delim, candidate_lines) ==
  LET counts == [i \in 1..Len(candidate_lines) |-> CountChar(candidate_lines[i], delim)]
      non_zero_counts == SelectSeq(counts, LAMBDA c : c > 0)
      nz == Len(non_zero_counts)
      n  == Len(counts)
      total == SumSeq(non_zero_counts)
      sumsq == SumSeq([i \in 1..nz |-> non_zero_counts[i] * non_zero_counts[i]])
      perfect == \A i \in 1..nz : non_zero_counts[i] = non_zero_counts[1]
      \* count * 100 * (nz / n)
      \* avg * (1 / (1 + variance)) * (nz / n) * 10 with avg = total/nz and
      \* variance = (nz*sumsq - total^2) / nz^2
      base == IF perfect
              THEN Frac(non_zero_counts[1] * 100 * nz, n)
              ELSE Frac(10 * total * nz * nz, n * (nz * nz + nz * sumsq - total * total))
      bonus == IF delim = "\t" /\ total >= 3 * nz THEN 2 ELSE 1
  IN IF nz < 2 THEN None ELSE <<Frac(base.num * bonus, base.den)>>

\* a loop in which a later candidate with an equal score replaces the best
RECURSIVE BestDelimiter_LastWins(_, _, _, _)
BestDelimiter_LastWins(k, candidate_lines, best_delimiter, best_score) ==
  IF k > Len(Delimiters) THEN [delimiter |-> best_delimiter, score |-> best_score]
  ELSE LET sc == DelimiterScore(Delimiters[k], candidate_lines) IN
    IF sc # None /\ ~FracGT(best_score, sc[1])
    THEN BestDelimiter_LastWins(k + 1, candidate_lines, <<Delimiters[k]>>, sc[1])
    ELSE BestDelimiter_LastWins(k + 1, candidate_lines, best_delimiter, best_score)

\* the for loop of lines 307-345 from delimiter k on
RECURSIVE BestDelimiter(_, _, _, _)
BestDelimiter(k, candidate_lines, best_delimiter, best_score) ==
  IF k > Len(Delimiters) THEN [delimiter |-> best_delimiter, score |-> best_score]
  ELSE LET sc == DelimiterScore(Delimiters[k], candidate_lines) IN
    IF sc # None /\ FracGT(sc[1], best_score)
    THEN BestDelimiter(k + 1, candidate_lines, <<Delimiters[k]>>, sc[1])
    ELSE BestDelimiter(k + 1, candidate_lines, best_delimiter, best_score)

\* the delimiter as <<d>>, or None
_detect_delimiter(sample) ==
  LET candidate_lines == CandidateLines(sample) IN
    IF Len(candidate_lines) < 2 THEN None
    ELSE LET best == BestDelimiter(1, candidate_lines, None, Frac(-1, 1)) IN
      IF FracGT(best.score, Frac(1, 1)) THEN best.delimiter ELSE None

(***************************************************************************)
(* CSVValidator.detect_dialect.  csv.Sniffer is library code: its result   *)
(* for the file's sample is the environment value sniffer, either          *)
(* <<"Error">> (csv.Error) or <<"Dialect", d>>.                            *)
(***************************************************************************)
Dialect(delimiter, doublequote, skipinitialspace) ==
  [delimiter |-> delimiter, quotechar |-> "\"", doublequote |-> doublequote,
   skipinitialspace |-> skipinitialspace]

\* csv.excel
Excel == Dialect(",", TRUE, FALSE)

TsvSuggestion == "File extension is .csv but content is tab-delimited"

\* no warning for a tab delimiter
TsvWarning_Silent(warns) == warns

TsvWarning(warns) ==
  add_warning(warns, "format", <<"Detected tab-separated values (TSV) format">>, None, None,
              << <<"suggestion", TsvSuggestion>> >>)

detect_dialect ==
  /\ pc = "detect_dialect"
  /\ LET sample    == Take(raw_content, DialectSampleSize)
         delimiter == _detect_delimiter(sample)
     IN IF delimiter # None
        THEN /\ detected_dialect' = <<Dialect(delimiter[1], TRUE, FALSE)>>
             /\ is_tsv' = IF delimiter[1] = "\t" THEN TRUE ELSE is_tsv
             /\ warnings' = IF delimiter[1] = "\t" THEN TsvWarning(warnings) ELSE warnings
        ELSE IF sniffer[1] = "Dialect"
        THEN /\ detected_dialect' = <<sniffer[2]>>
             /\ is_tsv' = IF sniffer[2].delimiter = "\t" THEN TRUE ELSE is_tsv
             /\ warnings' = IF sniffer[2].delimiter = "\t" THEN TsvWarning(warnings)
                            ELSE warnings
        ELSE /\ warnings' = add_warning(warnings, "format",
                              <<"Could not auto-detect CSV dialect, assuming comma-separated">>,
                              None, None, <<>>)
             /\ detected_dialect' = <<Excel>>
             /\ UNCHANGED is_tsv
  /\ pc' = "parse_csv"
  /\ UNCHANGED <<env_vars, main_vars, errors, text_vars, rows, headers, meta_vars, run_vars>>

(***************************************************************************)
(* csv.reader over StringIO(raw_content): the record parser of the csv     *)
(* module (non-strict, no escape character, minimal quoting).  The text is *)
(* read line by line, a line ending after each "\n"; "EOL" marks the end   *)
(* of each line.                                                           *)
(***************************************************************************)
\* csv.field_size_limit()
FieldSizeLimit == 131072

ReaderEvents(text) ==
  FoldLeft(LAMBDA events, c : events \o (IF c = "\n" THEN <<"\n", "EOL">> ELSE <<c>>),
           <<>>, text)
  \o (IF text # <<>> /\ text[Len(text)] # "\n" THEN <<"EOL">> ELSE <<>>)

ReaderStart == [state |-> "START_RECORD", field |-> <<>>, fields |-> <<>>,
                rows |-> <<>>, error |-> None]

save_field(p) == [p EXCEPT !.fields = Append(p.fields, p.field), !.field = <<>>]

add_char(p, c) ==
  IF Len(p.field) >= FieldSizeLimit
  THEN [p EXCEPT !.error = <<"field larger than field limit">>]
  ELSE [p EXCEPT !.field = Append(p.field, c)]

IsNewline(c) == c = "\n" \/ c = "\r"

\* parse_process_char
ProcessChar(p, c, d) ==
  LET state == IF p.state = "START_RECORD" /\ c # "EOL" /\ ~IsNewline(c)
               THEN "START_FIELD" ELSE p.state
  IN
  CASE state = "START_RECORD" ->
         IF c = "EOL" THEN p ELSE [p EXCEPT !.state = "EAT_CRNL"]
    [] state = "START_FIELD" ->
         IF IsNewline(c) \/ c = "EOL"
         THEN [save_field(p) EXCEPT !.state = IF c = "EOL" THEN "START_RECORD" ELSE "EAT_CRNL"]
         ELSE IF c = d.quotechar THEN [p EXCEPT !.state = "IN_QUOTED_FIELD"]
         ELSE IF c = " " /\ d.skipinitialspace THEN [p EXCEPT !.state = "START_FIELD"]
         ELSE IF c = d.delimiter THEN [save_field(p) EXCEPT !.state = "START_FIELD"]
         ELSE [add_char(p, c) EXCEPT !.state = "IN_FIELD"]
    [] state = "IN_FIELD" ->
         IF IsNewline(c) \/ c = "EOL"
         THEN [save_field(p) EXCEPT !.state = IF c = "EOL" THEN "START_RECORD" ELSE "EAT_CRNL"]
         ELSE IF c = d.delimiter THEN [save_field(p) EXCEPT !.state = "START_FIELD"]
         ELSE add_char(p, c)
    [] state = "IN_QUOTED_FIELD" ->
         IF c = "EOL" THEN p
         ELSE IF c = d.quotechar
         THEN [p EXCEPT !.state = IF d.doublequote THEN "QUOTE_IN_QUOTED_FIELD" ELSE "IN_FIELD"]
         ELSE add_char(p, c)
    [] state = "QUOTE_IN_QUOTED_FIELD" ->
         IF c = d.quotechar THEN [add_char(p, c) EXCEPT !.state = "IN_QUOTED_FIELD"]
         ELSE IF c = d.delimiter THEN [save_field(p) EXCEPT !.state = "START_FIELD"]
         ELSE IF IsNewline(c) \/ c = "EOL"
         THEN [save_field(p) EXCEPT !.state = IF c = "EOL" THEN "START_RECORD" ELSE "EAT_CRNL"]
         ELSE [add_char(p, c) EXCEPT !.state = "IN_FIELD"]
    [] state = "EAT_CRNL" ->
         IF IsNewline(c) THEN p
         ELSE IF c = "EOL" THEN [p EXCEPT !.state = "START_RECORD"]
         ELSE [p EXCEPT !.error = <<"new-line character seen in unquoted field">>]

\* Reader_iternext over all lines: a record is complete when a line ends in
\* START_RECORD; at end of input an open quoted field closes the last record
\* one event: nothing is read after an error
ReadEvent(p, event, d) ==
  IF p.error # None THEN p
  ELSE LET q == ProcessChar(p, event, d) IN
    IF q.error = None /\ event = "EOL" /\ q.state = "START_RECORD"
    THEN [q EXCEPT !.rows = Append(q.rows, q.fields), !.fields = <<>>]
    ELSE q

\* a reader that throws away the rows it has produced when it fails
ReadRecords_DropsRows(events, p, d) ==
  LET q == FoldLeft(LAMBDA r, event : ReadEvent(r, event, d), p, events) IN
    IF q.error # None THEN [q EXCEPT !.rows = <<>>]
    ELSE IF q.state # "START_RECORD" /\ (q.field # <<>> \/ q.state = "IN_QUOTED_FIELD")
    THEN [q EXCEPT !.rows = Append(q.rows, Append(q.fields, q.field)),
                   !.fields = <<>>, !.field = <<>>, !.state = "START_RECORD"]
    ELSE q

ReadRecords(events, p, d) ==
  LET q == FoldLeft(LAMBDA r, event : ReadEvent(r, event, d), p, events) IN
    IF q.error # None THEN q
    ELSE IF q.state # "START_RECORD" /\ (q.field # <<>> \/ q.state = "IN_QUOTED_FIELD")
    THEN [q EXCEPT !.rows = Append(q.rows, Append(q.fields, q.field)),
                   !.fields = <<>>, !.field = <<>>, !.state = "START_RECORD"]
    ELSE q

\* CSVValidator.parse_csv
parse_csv ==
  /\ pc = "parse_csv"
  /\ LET p == ReadRecords(ReaderEvents(raw_content), ReaderStart, detected_dialect[1]) IN
       /\ rows' = rows \o p.rows
       /\ headers' = IF p.rows # <<>> THEN p.rows[1] ELSE headers
       /\ errors' = IF p.error # None
                    THEN add_error(errors, "parsing", <<"CSV parsing error", p.error[1]>>,
                                   None, None, <<>>)
                    ELSE errors
  /\ pc' = "check_header_issues"
  /\ UNCHANGED <<env_vars, main_vars, warnings, text_vars, detected_dialect, is_tsv,
                 meta_vars, run_vars>>

(***************************************************************************)
(* Structural checks.                                                      *)
(***************************************************************************)
\* the distinct elements of s in order of first occurrence (dict / Counter key order)
Uniq(s) ==
  LET firsts == SelectSeq([i \in 1..Len(s) |-> i], LAMBDA i : \A j \in 1..(i - 1) : s[j] # s[i])
  IN [k \in 1..Len(firsts) |-> s[firsts[k]]]

\* Counter(s)[x]
Occurrences(s, x) == Cardinality({i \in 1..Len(s) : s[i] = x})

\* index (1-based) of the first element of s satisfying P
FirstIndex(s, P(_)) == CHOOSE i \in 1..Len(s) : P(s[i]) /\ \A j \in 1..(i - 1) : ~P(s[j])

ReservedHeaderNames ==
  { <<"i", "d">>, <<"n", "u", "l", "l">>, <<"n", "o", "n", "e">>,
    <<"u", "n", "d", "e", "f", "i", "n", "e", "d">>, <<"n", "a", "n">> }

\* lines 380-391: one warning for every header whose normalised form was seen before
RECURSIVE NearDuplicateWarnings(_, _, _)
NearDuplicateWarnings(hs, i, warns) ==
  IF i > Len(hs) THEN warns
  ELSE LET norm(h) == Lower(Strip(h))
           seen == \E j \in 1..(i - 1) : norm(hs[j]) = norm(hs[i])
           first == CHOOSE j \in 1..(i - 1) :
                      /\ norm(hs[j]) = norm(hs[i])
                      /\ \A k \in 1..(j - 1) : norm(hs[k]) # norm(hs[i])
       IN IF seen
          THEN NearDuplicateWarnings(hs, i + 1,
                 add_warning(warns, "header",
                             <<"Headers differ only by whitespace/case", hs[first], first, hs[i], i>>,
                             <<1>>, None, <<>>))
          ELSE NearDuplicateWarnings(hs, i + 1, warns)

\* the errors of check_header_issues for a non-empty header list
\* header errors that take every name for a duplicate of itself
HeaderErrors_CountsFromOne(hs, errs) ==
  LET names == Uniq(hs)
      dup_names == SelectSeq(names, LAMBDA h : Occurrences(hs, h) > 0 /\ Strip(h) # <<>>)
      duplicates == [k \in 1..Len(dup_names) |-> <<dup_names[k], Occurrences(hs, dup_names[k])>>]
  IN IF duplicates # <<>>
     THEN add_error(errs, "header", <<"Duplicate headers found", duplicates>>, <<1>>, None, <<>>)
     ELSE errs

HeaderErrors(hs, errs) ==
  LET empty_cols == Indices(hs, LAMBDA h : Strip(h) = <<>>)
      e1 == IF empty_cols # <<>>
            THEN add_error(errs, "header", <<"Empty header(s) in column(s)", empty_cols>>,
                           <<1>>, None, <<>>)
            ELSE errs
      names == Uniq(hs)
      dup_names == SelectSeq(names, LAMBDA h : Occurrences(hs, h) > 1 /\ Strip(h) # <<>>)
      duplicates == [k \in 1..Len(dup_names) |-> <<dup_names[k], Occurrences(hs, dup_names[k])>>]
  IN IF duplicates # <<>>
     THEN add_error(e1, "header", <<"Duplicate headers found", duplicates>>, <<1>>, None, <<>>)
     ELSE e1

\* the warnings of check_header_issues for a non-empty header list
HeaderWarnings(hs, warns) ==
  LET w1 == NearDuplicateWarnings(hs, 1, warns)
      idx == Indices(hs, LAMBDA h : Lower(h) \in ReservedHeaderNames)
      problematic == [k \in 1..Len(idx) |-> <<idx[k], hs[idx[k]]>>]
  IN IF problematic # <<>>
     THEN add_warning(w1, "header", <<"Potentially problematic header names", problematic>>,
                      <<1>>, None, <<>>)
     ELSE w1

check_header_issues ==
  /\ pc = "check_header_issues"
  /\ IF headers = <<>>
     THEN /\ errors' = add_error(errors, "header", <<"No headers found (file may be empty)">>,
                                 None, None, <<>>)
          /\ UNCHANGED warnings
     ELSE /\ errors' = HeaderErrors(headers, errors)
          /\ warnings' = HeaderWarnings(headers, warnings)
  /\ pc' = "check_column_consistency"
  /\ UNCHANGED <<env_vars, main_vars, text_vars, parse_vars, meta_vars, run_vars>>

\* the field count of the first row, taken for the most common one
MostCommon_FirstRow(col_counts) == col_counts[1]

\* Counter(col_counts).most_common(1)[0][0]: the highest frequency, the
\* count seen first among equals
MostCommon(col_counts) ==
  LET keys == Uniq(col_counts)
      k == CHOOSE i \in 1..Len(keys) :
             /\ \A j \in 1..Len(keys) :
                  Occurrences(col_counts, keys[j]) <= Occurrences(col_counts, keys[i])
             /\ \A j \in 1..(i - 1) :
                  Occurrences(col_counts, keys[j]) < Occurrences(col_counts, keys[i])
  IN keys[k]

\* lines 446-472: one error per observed field count, in order of first occurrence
RECURSIVE ColumnCountErrors(_, _, _, _, _)
ColumnCountErrors(found_counts, k, inconsistent, expected_cols, errs) ==
  IF k > Len(found_counts) THEN errs
  ELSE LET item_lines == SelectSeq(inconsistent, LAMBDA it : it.found = found_counts[k])
           group == [i \in 1..Len(item_lines) |-> item_lines[i].line]
       IN ColumnCountErrors(found_counts, k + 1, inconsistent, expected_cols,
            add_error(errs, "structure",
                      <<"Rows with {} columns (expected {}): lines", found_counts[k],
                        expected_cols, Truncated(group, 20)>>,
                      None, None, << <<"count", Len(group)>> >>))

check_column_consistency ==
  /\ pc = "check_column_consistency"
  /\ IF rows = <<>>
     THEN UNCHANGED <<errors, warnings, headers, meta_vars>>
     ELSE LET col_counts == [i \in 1..Len(rows) |-> Len(rows[i])]
              most_common_count == MostCommon(col_counts)
              most_common_freq  == Occurrences(col_counts, most_common_count)
              header_cols == IF headers # <<>> THEN Len(headers) ELSE Len(rows[1])
              \* most_common_freq > len(rows) * 0.5
              preamble == 2 * most_common_freq > Len(rows) /\ most_common_count # header_cols
              expected_cols == IF preamble THEN most_common_count ELSE header_cols
              \* 0-based index of the first row with the expected count, 0 when none
              metadata_end ==
                IF \E i \in 1..Len(rows) : Len(rows[i]) = expected_cols
                THEN FirstIndex(rows, LAMBDA r : Len(r) = expected_cols) - 1
                ELSE 0
              detected == preamble
              row_count == IF preamble
                           THEN (IF metadata_end > 0 THEN metadata_end ELSE metadata_row_count)
                           ELSE 0
              line_nums == SelectSeq([i \in 1..Len(rows) |-> i],
                             LAMBDA n : /\ ~(detected /\ n - 1 < row_count)
                                        /\ Len(rows[n]) # expected_cols)
              inconsistent == [i \in 1..Len(line_nums) |->
                                 [line |-> line_nums[i], expected |-> expected_cols,
                                  found |-> Len(rows[line_nums[i]])]]
              found_counts == Uniq([i \in 1..Len(inconsistent) |-> inconsistent[i].found])
          IN /\ metadata_rows_detected' = detected
             /\ metadata_row_count' = row_count
             /\ warnings' =
                  IF preamble /\ metadata_end > 0
                  THEN add_warning(warnings, "structure",
                         <<"File appears to have {} metadata row(s) before tabular data",
                           metadata_end>>,
                         None, None,
                         << <<"suggestion", <<"Data rows have {} columns; first {} row(s) are likely headers/metadata",
                                               expected_cols, metadata_end>> >>,
                            <<"metadata_rows", metadata_end>> >>)
                  ELSE warnings
             /\ headers' = IF preamble /\ metadata_end > 0 /\ metadata_end < Len(rows)
                           THEN rows[metadata_end + 1]
                           ELSE headers
             /\ errors' = ColumnCountErrors(found_counts, 1, inconsistent, expected_cols, errors)
  /\ pc' = "check_empty_rows"
  /\ UNCHANGED <<env_vars, main_vars, text_vars, rows, detected_dialect, is_tsv, run_vars>>

\* a variant that leaves the preamble rows out of the scan
check_empty_rows_SkipsPreamble ==
  /\ pc = "check_empty_rows"
  /\ LET empty_lines == SelectSeq(Indices(rows, LAMBDA row : ~\E i \in 1..Len(row) : Strip(row[i]) # <<>>),
                                  LAMBDA line_num : line_num > metadata_row_count)
     IN warnings' = IF empty_lines # <<>>
                    THEN add_warning(warnings, "content",
                                     <<"Empty rows found at lines", Truncated(empty_lines, 20)>>,
                                     None, None, << <<"count", Len(empty_lines)>> >>)
                    ELSE warnings
  /\ pc' = "check_whitespace_issues"
  /\ UNCHANGED <<env_vars, main_vars, errors, text_vars, parse_vars, meta_vars, run_vars>>

check_empty_rows ==
  /\ pc = "check_empty_rows"
  /\ LET empty_lines == Indices(rows, LAMBDA row : ~\E i \in 1..Len(row) : Strip(row[i]) # <<>>)
     IN warnings' = IF empty_lines # <<>>
                    THEN add_warning(warnings, "content",
                                     <<"Empty rows found at lines", Truncated(empty_lines, 20)>>,
                                     None, None, << <<"count", Len(empty_lines)>> >>)
                    ELSE warnings
  /\ pc' = "check_whitespace_issues"
  /\ UNCHANGED <<env_vars, main_vars, errors, text_vars, parse_vars, meta_vars, run_vars>>

\* (line_num, col_num) of every cell, row-major, both 1-based
RECURSIVE AllCells(_, _)
AllCells(rs, line_num) ==
  IF line_num > Len(rs) THEN <<>>
  ELSE [k \in 1..Len(rs[line_num]) |-> <<line_num, k>>] \o AllCells(rs, line_num + 1)

\* [(line_num, col_num) for every cell satisfying P]
CellsWhere(rs, P(_)) == SelectSeq(AllCells(rs, 1), LAMBDA lc : P(rs[lc[1]][lc[2]]))

check_whitespace_issues ==
  /\ pc = "check_whitespace_issues"
  /\ LET leading_issues  == CellsWhere(rows, LAMBDA cell : cell # LStrip(cell))
         trailing_issues == CellsWhere(rows, LAMBDA cell : cell # RStrip(cell))
         w1 == IF leading_issues # <<>>
               THEN add_warning(warnings, "whitespace",
                                <<"Cells with leading whitespace", Len(leading_issues),
                                  Take(leading_issues, 10)>>,
                                None, None, << <<"count", Len(leading_issues)>> >>)
               ELSE warnings
     IN warnings' = IF trailing_issues # <<>>
                    THEN add_warning(w1, "whitespace",
                                     <<"Cells with trailing whitespace", Len(trailing_issues),
                                       Take(trailing_issues, 10)>>,
                                     None, None, << <<"count", Len(trailing_issues)>> >>)
                    ELSE w1
  /\ pc' = "check_quoting_issues"
  /\ UNCHANGED <<env_vars, main_vars, errors, text_vars, parse_vars, meta_vars, run_vars>>

(***************************************************************************)
(* Content checks.                                                         *)
(***************************************************************************)
\* lines 516-520: one warning per physical line with an odd quote count
OddQuoteWarnings(ls, line_num, warns) ==
  FoldLeft(LAMBDA acc, n :
             LET quote_count == CountChar(ls[n], "\"") IN
               IF quote_count % 2 # 0
               THEN add_warning(acc, "quoting", <<"Odd number of quotes", quote_count>>,
                                <<n>>, None, <<>>)
               ELSE acc,
           warns, [k \in 1..(Len(ls) - line_num + 1) |-> line_num + k - 1])

\* a comma-separated piece that holds a quote but is not bracketed by quotes
IsQuoteSmell(part) ==
  LET stripped == Strip(part)
  IN HasChar(stripped, "\"") /\ ~(StartsWith(stripped, <<"\"">>) /\ EndsWith(stripped, <<"\"">>))

\* lines 524-535: at most one warning per physical line
UnescapedQuoteWarnings(ls, line_num, warns) ==
  FoldLeft(LAMBDA acc, n :
             LET line  == ls[n]
                 parts == Split(line, ",")
                 hit   == /\ ~HasSub(line, <<"\"", "\"">>)
                          /\ HasChar(line, "\"")
                          /\ \E k \in 1..Len(parts) : IsQuoteSmell(parts[k])
                 first == parts[FirstIndex(parts, IsQuoteSmell)]
             IN IF hit
                THEN add_warning(acc, "quoting", <<"Potential unescaped quote in field">>,
                                 <<n>>, None,
                                 << <<"field_sample", Take(Strip(first), 50)>> >>)
                ELSE acc,
           warns, [k \in 1..(Len(ls) - line_num + 1) |-> line_num + k - 1])

check_quoting_issues ==
  /\ pc = "check_quoting_issues"
  /\ warnings' = UnescapedQuoteWarnings(lines, 1, OddQuoteWarnings(lines, 1, warnings))
  /\ pc' = "check_data_type_consistency"
  /\ UNCHANGED <<env_vars, main_vars, errors, text_vars, parse_vars, meta_vars, run_vars>>

\* digits separated by single underscores: the digit groups float() accepts
IsDigitPart(s) ==
  /\ s # <<>>
  /\ s[1] \in Digits
  /\ s[Len(s)] \in Digits
  /\ \A i \in 1..Len(s) : s[i] \in Digits \/ s[i] = "_"
  /\ \A i \in 1..(Len(s) - 1) : ~(s[i] = "_" /\ s[i + 1] = "_")

IsSign(c) == c = "+" \/ c = "-"

Unsigned(s) == IF s # <<>> /\ IsSign(s[1]) THEN Tail(s) ELSE s

IsMantissa(m) ==
  LET parts == Split(m, ".")
  IN \/ Len(parts) = 1 /\ IsDigitPart(m)
     \/ /\ Len(parts) = 2
        /\ \/ IsDigitPart(parts[1]) /\ (parts[2] = <<>> \/ IsDigitPart(parts[2]))
           \/ parts[1] = <<>> /\ IsDigitPart(parts[2])

\* float(s) does not raise ValueError
FloatParses(s) ==
  LET body == Unsigned(Strip(s))
      low  == Lower(body)
      epos == Indices(low, LAMBDA c : c = "e")
  IN \/ low \in { <<"i", "n", "f">>, <<"n", "a", "n">>,
                  <<"i", "n", "f", "i", "n", "i", "t", "y">> }
     \/ epos = <<>> /\ IsMantissa(body)
     \/ /\ epos # <<>>
        /\ IsMantissa(SubSeq(body, 1, epos[1] - 1))
        /\ IsDigitPart(Unsigned(SubSeq(body, epos[1] + 1, Len(body))))

\* CSVValidator._is_numeric
_is_numeric(value) == FloatParses(SelectSeq(value, LAMBDA c : c # ","))

AllDigits(s) == \A i \in 1..Len(s) : s[i] \in Digits

\* a fixed-width pattern: "d" stands for \d, any other token for itself
MatchesFixed(value, pattern) ==
  /\ Len(value) = Len(pattern)
  /\ \A i \in 1..Len(pattern) :
       IF pattern[i] = "d" THEN value[i] \in Digits ELSE value[i] = pattern[i]

\* ^\d{1,2}/\d{1,2}/\d{2,4}$
MatchesFlexibleDate(value) ==
  LET parts == Split(value, "/")
  IN /\ Len(parts) = 3
     /\ \A k \in 1..3 : AllDigits(parts[k])
     /\ Len(parts[1]) \in 1..2
     /\ Len(parts[2]) \in 1..2
     /\ Len(parts[3]) \in 2..4

DatePatterns ==
  { <<"d", "d", "d", "d", "-", "d", "d", "-", "d", "d">>,
    <<"d", "d", "/", "d", "d", "/", "d", "d", "d", "d">>,
    <<"d", "d", "-", "d", "d", "-", "d", "d", "d", "d">>,
    <<"d", "d", "d", "d", "/", "d", "d", "/", "d", "d">> }

\* CSVValidator._is_date
_is_date(value) ==
  \/ \E pattern \in DatePatterns : MatchesFixed(value, pattern)
  \/ MatchesFlexibleDate(value)

BooleanWords ==
  { <<"t", "r", "u", "e">>, <<"f", "a", "l", "s", "e">>, <<"y", "e", "s">>, <<"n", "o">>,
    <<"1">>, <<"0">>, <<"y">>, <<"n">>, <<"t">>, <<"f">> }

\* CSVValidator._is_boolean
_is_boolean(value) == Lower(value) \in BooleanWords

\* the class lines 553-564 assign to one stripped cell
CellType(cell) ==
  IF cell = <<>> THEN "empty"
  ELSE IF _is_numeric(cell) THEN "numeric"
  ELSE IF _is_date(cell) THEN "date"
  ELSE IF _is_boolean(cell) THEN "boolean"
  ELSE "text"

TypeOrder == <<"numeric", "date", "boolean", "text">>

\* self.headers[col_idx] if col_idx < len(self.headers) else f"Column {col_idx + 1}"
ColumnName(hs, col) == IF col <= Len(hs) THEN hs[col] ELSE <<"Column", col>>

\* len(self.headers) if self.headers else (len(self.rows[0]) if self.rows else 0)
NumCols(hs, rs) == IF hs # <<>> THEN Len(hs) ELSE IF rs # <<>> THEN Len(rs[1]) ELSE 0

\* the loop of lines 545-572 from column col (1-based) on
RECURSIVE MixedTypeWarnings(_, _, _, _, _)
MixedTypeWarnings(col, num_cols, hs, data_rows, warns) ==
  IF col > num_cols THEN warns
  ELSE LET present == SelectSeq(data_rows, LAMBDA row : col <= Len(row))
           types == [i \in 1..Len(present) |-> CellType(Strip(present[i][col]))]
           found == SelectSeq(TypeOrder, LAMBDA t : InSeq(t, types))
           type_summary == [k \in 1..Len(found) |-> <<found[k], Occurrences(types, found[k])>>]
       IN MixedTypeWarnings(col + 1, num_cols, hs, data_rows,
            IF Len(found) > 1
            THEN add_warning(warns, "data_type",
                             <<"Mixed data types in column", ColumnName(hs, col), type_summary>>,
                             None, <<col>>, <<>>)
            ELSE warns)

check_data_type_consistency ==
  /\ pc = "check_data_type_consistency"
  /\ warnings' = IF Len(rows) < 2 THEN warnings
                 ELSE MixedTypeWarnings(1, NumCols(headers, rows), headers, Tail(rows), warnings)
  /\ pc' = "check_missing_values"
  /\ UNCHANGED <<env_vars, main_vars, errors, text_vars, parse_vars, meta_vars, run_vars>>

null_representations ==
  { <<>>, <<"n", "u", "l", "l">>, <<"N", "U", "L", "L">>, <<"N", "o", "n", "e">>,
    <<"n", "o", "n", "e">>, <<"N", "A">>, <<"N", "/", "A">>, <<"n", "/", "a">>,
    <<"#", "N", "/", "A">>, <<"N", "a", "N">>, <<"n", "a", "n">>, <<"-">>, <<"-", "-">> }

EmptyRepresentation == <<"(empty)">>

\* missing_count of one column (1-based col) over the data rows
MissingCount(col, data_rows) ==
  Cardinality({i \in 1..Len(data_rows) :
                 \/ col > Len(data_rows[i])
                 \/ Strip(data_rows[i][col]) \in null_representations})

\* representations_used of one column
RepresentationsUsed(col, data_rows) ==
  { IF Strip(data_rows[i][col]) = <<>> THEN EmptyRepresentation ELSE Strip(data_rows[i][col]) :
      i \in {j \in 1..Len(data_rows) : /\ col <= Len(data_rows[j])
                                        /\ Strip(data_rows[j][col]) \in null_representations} }

\* the orders in which iterating a set of strings can yield its elements
\* (str hashes are salted per process)
SetOrders(S) ==
  { o \in [1..Cardinality(S) -> S] : \A i, j \in 1..Cardinality(S) : i # j => o[i] # o[j] }

\* lines 638-647: one warning per key of missing_by_col whose rate exceeds 50%
RECURSIVE HighMissingWarnings(_, _, _, _, _)
HighMissingWarnings(keys, k, count_of, total_data_rows, warns) ==
  IF k > Len(keys) THEN warns
  ELSE HighMissingWarnings(keys, k + 1, count_of, total_data_rows,
         IF total_data_rows > 0 /\ 2 * count_of[k] > total_data_rows
         THEN add_warning(warns, "missing_values",
                          <<"Column {} has {} missing values", keys[k], count_of[k],
                            total_data_rows>>,
                          None, None, <<>>)
         ELSE warns)

check_missing_values ==
  /\ pc = "check_missing_values"
  /\ IF Len(rows) < 2
     THEN UNCHANGED warnings
     ELSE LET data_rows == Tail(rows)
              num_cols  == NumCols(headers, rows)
              \* columns with missing_count > 0, in column order
              cols == SelectSeq([c \in 1..num_cols |-> c],
                                LAMBDA c : MissingCount(c, data_rows) > 0)
              names == [k \in 1..Len(cols) |-> ColumnName(headers, cols[k])]
              \* missing_by_col: keys in order of first insertion, the value
              \* of a key is the one assigned last
              keys == Uniq(names)
              last_col(name) == cols[CHOOSE k \in 1..Len(cols) :
                                       /\ names[k] = name
                                       /\ \A j \in (k + 1)..Len(cols) : names[j] # name]
              count_of == [k \in 1..Len(keys) |-> MissingCount(last_col(keys[k]), data_rows)]
              all_representations ==
                UNION { RepresentationsUsed(last_col(keys[k]), data_rows) : k \in 1..Len(keys) }
          IN IF keys = <<>>
             THEN UNCHANGED warnings
             ELSE \E order \in SetOrders(all_representations) :
                    warnings' = HighMissingWarnings(keys, 1, count_of, Len(rows) - 1,
                      IF Cardinality(all_representations) > 1
                      THEN add_warning(warnings, "missing_values",
                             <<"Inconsistent null value representations used", order>>,
                             None, None, << <<"columns", keys>> >>)
                      ELSE warnings)
  /\ pc' = "check_duplicate_rows"
  /\ UNCHANGED <<env_vars, main_vars, errors, text_vars, parse_vars, meta_vars, run_vars>>

check_duplicate_rows ==
  /\ pc = "check_duplicate_rows"
  /\ IF Len(rows) < 2
     THEN UNCHANGED warnings
     ELSE LET row_tuples == Tail(rows)
              patterns   == SelectSeq(Uniq(row_tuples), LAMBDA r : Occurrences(row_tuples, r) > 1)
              total_dups == SumSeq([k \in 1..Len(patterns) |->
                                      Occurrences(row_tuples, patterns[k]) - 1])
          IN warnings' = IF patterns # <<>>
                         THEN add_warning(warnings, "duplicates",
                                          <<"Found {} duplicate rows ({} unique patterns repeated)",
                                            total_dups, Len(patterns)>>,
                                          None, None, <<>>)
                         ELSE warnings
  /\ pc' = "check_special_characters"
  /\ UNCHANGED <<env_vars, main_vars, errors, text_vars, parse_vars, meta_vars, run_vars>>

\* problematic_chars in dict order; the tab entry is added for non-TSV files
ProblematicChars(tsv) ==
  << <<"\r", "carriage return (not in line ending)">>, <<"VT", "vertical tab">>,
     <<"FF", "form feed">>, <<"NBSP", "non-breaking space">>, <<"LS", "line separator">>,
     <<"PS", "paragraph separator">> >>
  \o (IF tsv THEN <<>> ELSE << <<"\t", "tab (consider using TSV format)">> >>)

\* found_issues: (line, col, name) in row, column, dict order
FoundIssues(rs, chars) ==
  FoldLeft(LAMBDA found, lc :
             LET cell == rs[lc[1]][lc[2]]
                 hits == SelectSeq(chars, LAMBDA p : HasChar(cell, p[1]))
             IN found \o [i \in 1..Len(hits) |-> <<lc[1], lc[2], hits[i][2]>>],
           <<>>, AllCells(rs, 1))

\* lines 701-707: one warning per character name, in order of first occurrence
RECURSIVE SpecialCharWarnings(_, _, _, _)
SpecialCharWarnings(names, k, found_issues, warns) ==
  IF k > Len(names) THEN warns
  ELSE LET mine == SelectSeq(found_issues, LAMBDA f : f[3] = names[k])
           locations == [i \in 1..Len(mine) |-> <<mine[i][1], mine[i][2]>>]
       IN SpecialCharWarnings(names, k + 1, found_issues,
            add_warning(warns, "special_chars",
                        <<"Found {} in {} cells", names[k], Len(locations), Take(locations, 5)>>,
                        None, None, << <<"count", Len(locations)>> >>))

check_special_characters ==
  /\ pc = "check_special_characters"
  /\ LET found_issues == FoundIssues(rows, ProblematicChars(is_tsv))
         names == Uniq([i \in 1..Len(found_issues) |-> found_issues[i][3]])
     IN warnings' = SpecialCharWarnings(names, 1, found_issues, warnings)
  /\ pc' = "check_field_length"
  /\ UNCHANGED <<env_vars, main_vars, errors, text_vars, parse_vars, meta_vars, run_vars>>

max_reasonable_length == 10000

check_field_length ==
  /\ pc = "check_field_length"
  /\ LET long_cells  == CellsWhere(rows, LAMBDA cell : Len(cell) > max_reasonable_length)
         long_fields == [k \in 1..Len(long_cells) |->
                           <<long_cells[k][1], long_cells[k][2],
                             Len(rows[long_cells[k][1]][long_cells[k][2]])>>]
     IN warnings' = IF long_fields # <<>>
                    THEN add_warning(warnings, "field_length",
                                     <<"Found {} fields exceeding {} characters",
                                       Len(long_fields), max_reasonable_length>>,
                                     None, None, << <<"fields", Take(long_fields, 10)>> >>)
                    ELSE warnings
  /\ pc' = "get_results"
  /\ UNCHANGED <<env_vars, main_vars, errors, text_vars, parse_vars, meta_vars, run_vars>>

(***************************************************************************)
(* CSVValidator.get_results                                                *)
(***************************************************************************)
\* headers kept in stats
MaxStatsHeaders == 50

DelimiterName(tsv, dialect) ==
  LET delimiter_name == IF tsv THEN "tab"
                        ELSE IF dialect # None THEN dialect[1].delimiter ELSE "unknown"
  IN IF delimiter_name = "," THEN "comma"
     ELSE IF delimiter_name = ";" THEN "semicolon"
     ELSE IF delimiter_name = "|" THEN "pipe"
     ELSE delimiter_name

\* a report whose error count also counts the warnings
Report_CountsAllFindings(path, errs, warns, rs, hs, encoding, tsv, dialect) ==
  [file |-> path,
   valid |-> Len(errs) = 0,
   error_count |-> Len(errs) + Len(warns),
   warning_count |-> Len(warns),
   errors |-> errs,
   warnings |-> warns,
   stats |-> [total_rows |-> Len(rs),
              total_columns |-> IF hs # <<>> THEN Len(hs) ELSE 0,
              headers |-> IF hs # <<>> THEN Take(hs, MaxStatsHeaders) ELSE <<>>,
              encoding |-> encoding,
              delimiter |-> DelimiterName(tsv, dialect),
              format |-> IF tsv THEN "TSV" ELSE "CSV"]]

\* a report whose stats list every header
Report_AllHeaders(path, errs, warns, rs, hs, encoding, tsv, dialect) ==
  [file |-> path,
   valid |-> Len(errs) = 0,
   error_count |-> Len(errs),
   warning_count |-> Len(warns),
   errors |-> errs,
   warnings |-> warns,
   stats |-> [total_rows |-> Len(rs),
              total_columns |-> IF hs # <<>> THEN Len(hs) ELSE 0,
              headers |-> hs,
              encoding |-> encoding,
              delimiter |-> DelimiterName(tsv, dialect),
              format |-> IF tsv THEN "TSV" ELSE "CSV"]]

Report(path, errs, warns, rs, hs, encoding, tsv, dialect) ==
  [file |-> path,
   valid |-> Len(errs) = 0,
   error_count |-> Len(errs),
   warning_count |-> Len(warns),
   errors |-> errs,
   warnings |-> warns,
   stats |-> [total_rows |-> Len(rs),
              total_columns |-> IF hs # <<>> THEN Len(hs) ELSE 0,
              headers |-> IF hs # <<>> THEN Take(hs, MaxStatsHeaders) ELSE <<>>,
              encoding |-> encoding,
              delimiter |-> DelimiterName(tsv, dialect),
              format |-> IF tsv THEN "TSV" ELSE "CSV"]]

get_results ==
  /\ pc = "get_results"
  /\ results' = <<Report(file_path, errors, warnings, rows, headers, detected_encoding,
                         is_tsv, detected_dialect)>>
  /\ pc' = "report"
  /\ UNCHANGED <<env_vars, tool_name, file_path, output, stderr, exit_code, errors, warnings,
                 text_vars, parse_vars, meta_vars, run_vars>>

(***************************************************************************)
(* format_results: the text as its sequence of lines (joined by "\n" in    *)
(* the source); <<>> is the empty string.                                  *)
(***************************************************************************)
\* " [line L, col C]", " [line L]" or "": the column shows only next to a line
Location(f) == IF f.line # None THEN f.line \o f.column ELSE <<>>

RECURSIVE ErrorLines(_)
ErrorLines(errs) ==
  IF errs = <<>> THEN <<>>
  ELSE << <<"error", Head(errs).category, Location(Head(errs)), Head(errs).message>> >>
         \o ErrorLines(Tail(errs))

RECURSIVE WarningLines(_)
WarningLines(warns) ==
  IF warns = <<>> THEN <<>>
  ELSE << <<"warning", Head(warns).category, Location(Head(warns)), Head(warns).message>> >>
         \o (IF HasExtra(Head(warns), "suggestion")
             THEN << <<"suggestion", GetExtra(Head(warns), "suggestion")>> >>
             ELSE <<>>)
         \o WarningLines(Tail(warns))

\* a status that ignores warnings
StatusOf_IgnoresWarnings(r) == IF r.errors # <<>> THEN "INVALID" ELSE "VALID"

StatusOf(r) ==
  IF r.errors # <<>> THEN "INVALID"
  ELSE IF r.warning_count > 0 THEN "VALID (with warnings)"
  ELSE "VALID"

format_results(r, always_show) ==
  IF r.valid /\ r.warning_count = 0 /\ ~always_show THEN <<>>
  ELSE
    << <<"banner">>, <<"CSV VALIDATION REPORT", r.file>>, <<"banner">> >>
    \o (IF r.stats.total_rows > 0
        THEN << <<"stats",
                  << <<"Rows", r.stats.total_rows>>, <<"Columns", r.stats.total_columns>> >>
                  \o (IF r.stats.encoding # "" THEN << <<"Encoding", r.stats.encoding>> >> ELSE <<>>)
                  \o (IF r.stats.format # "" THEN << <<"Format", r.stats.format>> >> ELSE <<>>)
                  \o (IF r.stats.delimiter # ""
                      THEN << <<"Delimiter", r.stats.delimiter>> >> ELSE <<>>)>> >>
        ELSE <<>>)
    \o (IF r.errors # <<>>
        THEN << <<"rule">>, <<"ERRORS", r.error_count>>, <<"rule">> >> \o ErrorLines(r.errors)
        ELSE <<>>)
    \o (IF r.warnings # <<>>
        THEN << <<"rule">>, <<"WARNINGS", r.warning_count>>, <<"rule">> >>
               \o WarningLines(r.warnings)
        ELSE <<>>)
    \o (IF always_show /\ r.stats.headers # <<>>
        THEN << <<"rule">>, <<"COLUMNS">>, <<"rule">> >>
               \o [i \in 1..Len(r.stats.headers) |-> <<"column", i, r.stats.headers[i]>>]
               \o (IF r.stats.total_columns > MaxStatsHeaders
                   THEN << <<"more columns", r.stats.total_columns - MaxStatsHeaders>> >>
                   ELSE <<>>)
        ELSE <<>>)
    \o << <<"banner">>, <<"Status", StatusOf(r)>>, <<"banner">> >>

(***************************************************************************)
(* main, lines 858-873: format, print to standard error, exit.             *)
(***************************************************************************)
\* an exit code that blocks reads as well
ExitCode_BlocksReads(r, tool) == IF r.errors # <<>> THEN 1 ELSE 0

ExitCode(r, tool) == IF r.errors # <<>> /\ tool # "Read" THEN 1 ELSE 0

main_report ==
  /\ pc = "report"
  /\ LET text == format_results(results[1], tool_name = "Read") IN
       /\ output' = text
       /\ stderr' = IF text # <<>> THEN text ELSE stderr
  /\ Exit(ExitCode(results[1], tool_name))
  /\ UNCHANGED <<env_vars, tool_name, file_path, results, errors, warnings, text_vars,
                 parse_vars, meta_vars, run_vars>>

(***************************************************************************)
(* A second invocation of the hook on the same, unmodified file: a new     *)
(* process and a new validator; the first report is kept for comparison.   *)
(***************************************************************************)
Rerun ==
  /\ pc = "done"
  /\ run = 1
  /\ results # None
  /\ run' = 2
  /\ first_results' = results
  /\ pc' = "main"
  /\ tool_name' = ""
  /\ file_path' = <<>>
  /\ results' = None
  /\ output' = <<>>
  /\ stderr' = <<>>
  /\ exit_code' = None
  /\ errors' = <<>>
  /\ warnings' = <<>>
  /\ raw_content' = <<>>
  /\ lines' = <<>>
  /\ rows' = <<>>
  /\ headers' = <<>>
  /\ detected_dialect' = None
  /\ detected_encoding' = ""
  /\ is_tsv' = FALSE
  /\ metadata_rows_detected' = FALSE
  /\ metadata_row_count' = 0
  /\ UNCHANGED env_vars

(***************************************************************************)
(* Inputs.                                                                 *)
(***************************************************************************)
\* lines per input file
MaxLines == 3

\* rows and columns of an input grid
MaxRows == 3

MaxCols == 2

\* lines per input file with a preamble
MaxPreambleLines == 5

\* the hook input naming a tool and a path
HookInput(tool, path) ==
  <<"json", JObj([tool_name |-> JStr(tool), tool_input |-> JObj([file_path |-> JStr(path)])])>>

CsvPath == <<"d", ".", "c", "s", "v">>

\* hook inputs that main handles without validating
OtherInputs ==
  { <<"invalid">>,
    <<"json", JArr>>, <<"json", JNull>>, <<"json", JStr("Write")>>,
    <<"json", JObj(<<>>)>>,
    <<"json", JObj([tool_name |-> JNull])>>,
    <<"json", JObj([tool_name |-> JStr("Bash"), tool_input |-> JObj([file_path |-> JStr(CsvPath)])])>>,
    <<"json", JObj([tool_name |-> JStr("Write")])>>,
    <<"json", JObj([tool_name |-> JStr("Write"), tool_input |-> JNull])>>,
    <<"json", JObj([tool_name |-> JStr("Edit"), tool_input |-> JObj([file_path |-> JNull])])>>,
    HookInput("Write", <<"d", ".", "t", "x", "t">>),
    HookInput("Read", <<"c", "s", "v">>),
    HookInput("Edit", <<>>) }

\* paths that pass the extension filter
CsvPaths == { CsvPath, <<"D", ".", "C", "S", "V">>, <<"d", ".", "T", "s", "v">> }

\* one line of text per element, each ended by "\n"
RECURSIVE Unlines(_)
Unlines(ls) == IF ls = <<>> THEN <<>> ELSE Head(ls) \o <<"\n">> \o Unlines(Tail(ls))

TextsOf(line_set, max_lines) ==
  { Unlines(ls) : ls \in UNION { [1..n -> line_set] : n \in 0..max_lines } }

CharsOf(text) == { text[i] : i \in 1..Len(text) }

\* what csv.Sniffer().sniff can answer for a text: csv.Error, or a dialect
\* whose delimiter is a character of the sample other than "\n"; it is asked
\* only when the scoring stage finds no delimiter
SnifferOutcomes(text) ==
  IF _detect_delimiter(Take(text, DialectSampleSize)) # None THEN { <<"Unused">> }
  ELSE { <<"Error">> }
       \cup { <<"Dialect", Dialect(c, dq, si)>> :
                c \in CharsOf(text) \ {"\n"},
                dq \in (IF HasChar(text, "\"") THEN BOOLEAN ELSE {FALSE}),
                si \in (IF HasChar(text, " ") THEN BOOLEAN ELSE {FALSE}) }

InitEnv(input, status, bytes, open_fails, read_fails, sniff) ==
  /\ stdin = input
  /\ file_status = status
  /\ file_bytes = bytes
  /\ open_error = open_fails
  /\ read_errors = read_fails
  /\ sniffer = sniff
  /\ run = 1
  /\ first_results = None
  /\ ProcessInit

SmallFile == AsciiBytes(<<"a", ",", "b", "\n", "1", ",", "2", "\n">>)

\* invocations that end in main without a validator
InitOther ==
  \E input \in OtherInputs : InitEnv(input, "ok", SmallFile, FALSE, {}, <<"Unused">>)

\* a file no UTF-8 or cp1252 decoder accepts
UndecodableFile == <<97, 129, 10>>

\* whether some attempted encoding reads the file
Readable(bytes, failures) == ReadLoop(EncodingsToTry(bytes), 1, bytes, failures, <<>>).ok

\* the sniffer's answers for a file read with the given failures
SnifferFor(bytes, failures) ==
  IF Readable(bytes, failures)
  THEN SnifferOutcomes(ReadLoop(EncodingsToTry(bytes), 1, bytes, failures, <<>>).content)
  ELSE { <<"Unused">> }

\* invocations whose file is missing, not a file, unreadable or fails to open or read
InitFatal ==
  \/ \E tool \in ValidatedTools, path \in CsvPaths :
       \/ \E status \in {"missing", "not_a_file", "unreadable"} :
            InitEnv(HookInput(tool, path), status, <<>>, FALSE, {}, <<"Unused">>)
       \/ InitEnv(HookInput(tool, path), "ok", SmallFile, TRUE, {}, <<"Unused">>)
  \/ \E tool \in ValidatedTools, bytes \in {SmallFile, UndecodableFile} :
       \E failures \in SUBSET (1..Len(FallbackEncodings)) \ {{}} :
         \E sniff \in SnifferFor(bytes, failures) :
           InitEnv(HookInput(tool, CsvPath), "ok", bytes, FALSE, failures, sniff)

\* the text read_file produces for a file that reads without I/O errors
ContentOf(bytes) == ReadLoop(EncodingsToTry(bytes), 1, bytes, {}, <<>>).content

\* invocations on a readable file holding one of the texts
InitContent(texts, tools) ==
  \E text \in texts, tool \in tools :
    \E sniff \in SnifferOutcomes(ContentOf(AsciiBytes(text))) :
      InitEnv(HookInput(tool, CsvPath), "ok", AsciiBytes(text), FALSE, {}, sniff)

\* the lines of the general input files
Lines ==
  { <<"a", ",", "b">>, <<"1", ",", "2">>, <<"N", "A", ",">>, <<"1", ",", "NUL">>,
    <<"\"", "a", ",", "b">>, <<" ", "a", "\t", "b", "\r">> }

Init ==
  \/ InitOther
  \/ InitFatal
  \/ InitContent(TextsOf(Lines, MaxLines), {"Read", "Write"})

Validate ==
  \/ check_file_exists
  \/ read_file
  \/ check_encoding_issues
  \/ check_bom
  \/ check_line_endings
  \/ check_empty_file
  \/ detect_dialect
  \/ parse_csv
  \/ check_header_issues
  \/ check_column_consistency
  \/ check_empty_rows
  \/ check_whitespace_issues
  \/ check_quoting_issues
  \/ check_data_type_consistency
  \/ check_missing_values
  \/ check_duplicate_rows
  \/ check_special_characters
  \/ check_field_length
  \/ get_results

Next ==
  \/ main_read_input
  \/ Validate
  \/ main_report

Spec == Init /\ [][Next]_vars

(***************************************************************************)
(* Properties of the report and of the hook's outcome.                     *)
(***************************************************************************)
\* a validation ran and the process has ended
Validated == pc = "done" /\ results # None

\* C1: every report returned by validate, on the normal path and on every
\* early return, has error_count = len(errors), warning_count =
\* len(warnings) and valid = (error_count = 0)
C1_ReportCounts ==
  results # None =>
    LET r == results[1] IN
      /\ r.error_count = Len(r.errors)
      /\ r.warning_count = Len(r.warnings)
      /\ r.valid = (r.error_count = 0)

\* a report of the normal path holding both errors and warnings
C1_Witness ==
  /\ results # None
  /\ rows # <<>>
  /\ results[1].error_count > 0
  /\ results[1].warning_count > 0

\* the file fails check_file_exists or the binary open
Unopenable == file_status # "ok" \/ open_error

\* the file opens but no attempted encoding reads it
Unreadable == ~Unopenable /\ ~Readable(file_bytes, read_errors)

\* the states validate passes through when it returns early
EarlyReturnPath == {"main", "check_file_exists", "read_file", "get_results", "report", "done"}

\* the attempts of read_file that raise something other than a decode error
RaisingAttempts == read_errors \cap (1..Len(EncodingsToTry(file_bytes)))

\* C2 as stated: on every fatal path no later check runs and the report
\* holds exactly one finding, the fatal error, and no warnings
C2_SingleFinding ==
  (results # None /\ (Unopenable \/ Unreadable)) =>
    LET r == results[1] IN
      /\ Len(r.errors) = 1
      /\ r.warnings = <<>>
      /\ r.stats.total_rows = 0
      /\ r.stats.delimiter = "unknown"

\* C2: on every fatal path no later check runs (no rows, no dialect) and the
\* report has no warnings; its last finding is the fatal error, the only
\* finding unless no attempted encoding could be read, where one "file"
\* error precedes it for each attempt that raised something other than a
\* decode error
C2_FatalReport ==
  (Unopenable \/ Unreadable) =>
    /\ pc \in EarlyReturnPath
    /\ rows = <<>> /\ headers = <<>> /\ detected_dialect = None /\ warnings = <<>>
    /\ results # None =>
         LET r == results[1]
             n == Len(r.errors)
         IN /\ r.warnings = <<>>
            /\ r.stats.total_rows = 0
            /\ r.stats.total_columns = 0
            /\ r.stats.delimiter = "unknown"
            /\ n >= 1
            /\ Unopenable => n = 1 /\ r.errors[1].category = "file"
            /\ Unreadable =>
                 /\ n = Cardinality(RaisingAttempts) + 1
                 /\ r.errors[n].category = "encoding"
                 /\ r.errors[n].message = <<"Could not decode file with any common encoding">>
                 /\ \A i \in 1..(n - 1) :
                      /\ r.errors[i].category = "file"
                      /\ r.errors[i].message[1] = "Error reading file with"

\* a report after every attempted encoding failed, some with a decode error
C2_Witness ==
  /\ results # None
  /\ Unreadable
  /\ Len(results[1].errors) > 1
  /\ Len(results[1].errors) < Len(EncodingsToTry(file_bytes)) + 1

\* C3: when validation ran, the exit code is 1 exactly when the report has
\* an error and the tool is Write or Edit; it is 0 without errors and
\* always 0 for Read
C3_ExitCode ==
  Validated =>
    LET has_errors == results[1].error_count > 0 IN
      /\ exit_code \in {<<0>>, <<1>>}
      /\ exit_code = <<1>> <=> (has_errors /\ tool_name \in {"Write", "Edit"})
      /\ ~has_errors => exit_code = <<0>>
      /\ tool_name = "Read" => exit_code = <<0>>

\* a read of a file with errors that is not blocked
C3_Witness ==
  /\ Validated
  /\ tool_name = "Read"
  /\ results[1].error_count > 0
  /\ exit_code = <<0>>

\* the hook input asks for a validation: an object naming Read, Write or
\* Edit and a path ending in .csv or .tsv, compared case-insensitively
Triggers(input) ==
  /\ input[1] = "json"
  /\ IsObj(input[2])
  /\ "tool_name" \in DOMAIN input[2][2]
  /\ IsStr(input[2][2]["tool_name"])
  /\ input[2][2]["tool_name"][2] \in ValidatedTools
  /\ "tool_input" \in DOMAIN input[2][2]
  /\ IsObj(input[2][2]["tool_input"])
  /\ "file_path" \in DOMAIN input[2][2]["tool_input"][2]
  /\ IsStr(input[2][2]["tool_input"][2]["file_path"])
  /\ IsCsvPath(input[2][2]["tool_input"][2]["file_path"][2])

\* C4: validation is triggered only by Read, Write or Edit on a path ending
\* in .csv or .tsv; for every other standard input the hook exits with
\* code 0 and writes no output
C4_SilentExit ==
  /\ pc \notin {"main", "done"} => Triggers(stdin)
  /\ (pc = "done" /\ ~Triggers(stdin)) =>
       /\ results = None
       /\ exit_code = <<0>>
       /\ output = <<>>
       /\ stderr = <<>>

\* C5: the text is empty exactly when the report has no errors, no warnings
\* and verbose mode is off; otherwise it ends with the status INVALID with
\* an error, VALID (with warnings) with warnings only, VALID with neither
C5_Status ==
  Validated =>
    LET r == results[1]
        always_show == tool_name = "Read"
        n == Len(output)
    IN /\ output = <<>> <=> (r.error_count = 0 /\ r.warning_count = 0 /\ ~always_show)
       /\ output # <<>> =>
            /\ n >= 2
            /\ output[n] = <<"banner">>
            /\ output[n - 1] =
                 <<"Status", IF r.error_count > 0 THEN "INVALID"
                             ELSE IF r.warning_count > 0 THEN "VALID (with warnings)"
                             ELSE "VALID">>

\* a text closing with VALID (with warnings)
C5_Witness ==
  /\ Validated
  /\ output # <<>>
  /\ output[Len(output) - 1] = <<"Status", "VALID (with warnings)">>

\* the printed line of a finding, with its location prefix
FindingLine(kind, f) == <<kind, f.category, Location(f), f.message>>

\* the text prints the finding and, right after it, its suggestion if any
Printed(text, kind, f) ==
  \E i \in 1..Len(text) :
    /\ text[i] = FindingLine(kind, f)
    /\ HasExtra(f, "suggestion") =>
         /\ i < Len(text)
         /\ text[i + 1] = <<"suggestion", GetExtra(f, "suggestion")>>

\* C6: in a non-empty text both sections print every finding with its
\* location prefix and, when it carries one, its suggestion line
C6_SuggestionsPrinted ==
  (Validated /\ output # <<>>) =>
    LET r == results[1] IN
      /\ \A i \in 1..Len(r.errors) : Printed(output, "error", r.errors[i])
      /\ \A i \in 1..Len(r.warnings) : Printed(output, "warning", r.warnings[i])

(***************************************************************************)
(* Two invocations of the hook on the same, unmodified file.               *)
(***************************************************************************)
NextIdem ==
  \/ Next
  \/ Rerun

SpecIdem == Init /\ [][NextIdem]_vars

\* C7: two validation runs on the same unmodified file, each in its own
\* process with a fresh validator, produce identical reports: the same
\* findings, messages and extras in the same order, and the same stats
C7_Idempotent ==
  (run = 2 /\ Validated) => results = first_results

(***************************************************************************)
(* Files whose first rows differ in field count from the rows after them.  *)
(***************************************************************************)
\* lines of one, two and three fields
PreambleLines == { <<"t">>, <<"a", ",", "b">>, <<"c", ",", "d", ",", "e">> }

InitPreamble ==
  \/ InitOther
  \/ InitFatal
  \/ InitContent(TextsOf(PreambleLines, MaxPreambleLines), {"Write"})

SpecPreamble == InitPreamble /\ [][Next]_vars

\* the first k parsed rows differ from M fields and all later rows, more
\* than half of all rows, have exactly M
HasPreamble(k, M) ==
  /\ k >= 1
  /\ \A i \in 1..Len(rows) : (Len(rows[i]) = M) <=> (i > k)
  /\ 2 * (Len(rows) - k) > Len(rows)

StructureFindings(findings) == SelectSeq(findings, LAMBDA f : f.category = "structure")

\* C10: when the first k >= 1 parsed rows each differ from M fields and all
\* following rows, more than half of all rows, have exactly M, exactly one
\* structure warning reports k preamble rows and no column-count error is
\* emitted for the remaining rows
C10_Preamble ==
  Validated =>
    \A k \in 1..Len(rows) :
      \A M \in { Len(rows[i]) : i \in 1..Len(rows) } :
        HasPreamble(k, M) =>
          LET structure_warnings == StructureFindings(results[1].warnings) IN
            /\ Len(structure_warnings) = 1
            /\ GetExtra(structure_warnings[1], "metadata_rows") = k
            /\ structure_warnings[1].message[2] = k
            /\ StructureFindings(results[1].errors) = <<>>
            /\ metadata_rows_detected
            /\ metadata_row_count = k

\* two preamble rows of different field counts before three rows of three fields
C10_Witness ==
  /\ Validated
  /\ Len(rows) = 5
  /\ HasPreamble(2, 3)
  /\ Len(rows[1]) # Len(rows[2])

(***************************************************************************)
(* Files written from a grid of fields: every row joined by one delimiter  *)
(* and ended by a line terminator.                                         *)
(***************************************************************************)
GridDelimiters == {",", "\t", ";", "|"}

\* the fields a row pattern puts in columns 1, 2, ...
PatternFields ==
  [letters |-> << <<"a">>, <<"b">>, <<"c">>, <<"d">> >>,
   digits  |-> << <<"1">>, <<"2">>, <<"3">>, <<"4">> >>,
   more    |-> << <<"5">>, <<"6">>, <<"7">>, <<"8">> >>,
   nested  |-> << <<"x", ";", "y">>, <<"x", ";", "y">>, <<"x", ";", "y">>, <<"x", ";", "y">> >>,
   blank   |-> << <<>>, <<>>, <<>>, <<>> >>]

GridRow(pattern, cols) ==
  [j \in 1..cols |-> PatternFields[pattern][((j - 1) % Len(PatternFields[pattern])) + 1]]

\* the terminator of row i: LF, CRLF, or CRLF on the first row only
EndOfRow(terminators, i) ==
  IF terminators = "crlf" \/ (terminators = "mixed" /\ i = 1) THEN <<"\r", "\n">> ELSE <<"\n">>

RECURSIVE GridText(_, _, _, _)
GridText(grid, delimiter, terminators, i) ==
  IF i > Len(grid) THEN <<>>
  ELSE Join(grid[i], <<delimiter>>) \o EndOfRow(terminators, i)
       \o GridText(grid, delimiter, terminators, i + 1)

GridTexts(patterns, terminator_set) ==
  { GridText([i \in 1..Len(ps) |-> GridRow(ps[i], cols)], delimiter, terminators, 1) :
      ps \in UNION { [1..n -> patterns] : n \in 1..MaxRows },
      cols \in 1..MaxCols,
      delimiter \in GridDelimiters,
      terminators \in terminator_set }

InitGrid ==
  \/ InitOther
  \/ InitFatal
  \/ InitContent(GridTexts({"letters", "digits", "more"}, {"lf", "crlf", "mixed"}), {"Write"})

SpecGrid == InitGrid /\ [][Next]_vars

InitDelim ==
  \/ InitOther
  \/ InitFatal
  \/ InitContent(GridTexts({"letters", "nested", "blank"}, {"lf", "crlf"}), {"Write"})

SpecDelim == InitDelim /\ [][Next]_vars

\* the rows written in a text: its lines without their terminators
WrittenRows(text) ==
  LET pieces == Split(text, "\n")
      body == Take(pieces, Len(pieces) - 1)
  IN [i \in 1..Len(body) |->
        IF EndsWith(body[i], <<"\r">>) THEN Take(body[i], Len(body[i]) - 1) ELSE body[i]]

\* the grid a text holds when its rows are split at a delimiter
FieldsOf(text, delimiter) ==
  [i \in 1..Len(WrittenRows(text)) |-> Split(WrittenRows(text)[i], delimiter)]

\* the text joins at least min_rows rows of one field count, at least min_cols
Joined(text, delimiter, min_rows, min_cols) ==
  /\ text # <<>>
  /\ text[Len(text)] = "\n"
  /\ LET grid == FieldsOf(text, delimiter) IN
       /\ Len(grid) >= min_rows
       /\ Len(grid[1]) >= min_cols
       /\ \A i \in 1..Len(grid) : Len(grid[i]) = Len(grid[1])

AsciiAlnum == Digits \cup { p[1] : p \in UpperToLower } \cup { p[2] : p \in UpperToLower }

AllFields(grid, P(_)) == \A i \in 1..Len(grid) : \A j \in 1..Len(grid[i]) : P(grid[i][j])

IsPlainField(field) == field # <<>> /\ \A k \in 1..Len(field) : field[k] \in AsciiAlnum

IsLineEndingWarning(f) == f.category = "format" /\ f.message[1] = "Inconsistent line endings detected"

\* both LF and CRLF end rows of the text
MixedEndings(text) ==
  /\ HasSub(text, <<"\r", "\n">>)
  /\ \E i \in 1..Len(text) : text[i] = "\n" /\ (i = 1 \/ text[i - 1] # "\r")

\* C8 as stated: a rectangular grid of N >= 1 rows by M >= 1 columns of
\* non-empty ASCII fields without special characters validates with zero
\* errors and zero warnings, except possibly a line-ending warning (here for
\* ASCII files read without an I/O error whose delimiter the scoring stage
\* finds, so that nothing rests on csv.Sniffer)
C8_AnyGridClean ==
  (/\ Validated
   /\ read_errors = {}
   /\ file_bytes = AsciiBytes(raw_content)
   /\ sniffer = <<"Unused">>
   /\ \E delimiter \in GridDelimiters :
        /\ Joined(raw_content, delimiter, 1, 1)
        /\ AllFields(FieldsOf(raw_content, delimiter), IsPlainField)) =>
    /\ errors = <<>>
    /\ \A i \in 1..Len(warnings) : IsLineEndingWarning(warnings[i])

\* the header names differ ignoring case and none is reserved
PlainHeaders(hs) ==
  /\ \A j \in 1..Len(hs) : Lower(hs[j]) \notin ReservedHeaderNames
  /\ \A j \in 1..Len(hs) : \A k \in 1..Len(hs) : Lower(hs[j]) = Lower(hs[k]) => j = k

\* the data rows differ, hold no null token, and each column has one type class
PlainData(grid) ==
  /\ \A i \in 2..Len(grid) : \A k \in 2..Len(grid) : grid[i] = grid[k] => i = k
  /\ \A i \in 2..Len(grid) : \A j \in 1..Len(grid[i]) :
       /\ grid[i][j] \notin null_representations
       /\ CellType(grid[i][j]) = CellType(grid[2][j])

\* a grid of the amended C8, written in ASCII to a text with the delimiter
CleanGrid(text, delimiter) ==
  /\ file_bytes = AsciiBytes(text)
  /\ delimiter \in {",", ";", "|"}
  /\ Joined(text, delimiter, 2, 2)
  /\ Len(text) <= DialectSampleSize
  /\ AllFields(FieldsOf(text, delimiter), IsPlainField)
  /\ PlainHeaders(FieldsOf(text, delimiter)[1])
  /\ PlainData(FieldsOf(text, delimiter))

\* C8: a grid of N >= 2 rows by M >= 2 columns of non-empty fields of ASCII
\* letters and digits, written in ASCII with comma, semicolon or pipe and rows
\* ended by LF or CRLF into at most 8192 characters read without an I/O error,
\* whose header names differ ignoring case and are not reserved, whose data
\* rows differ and hold no null token, and whose columns each hold one type
\* class, validates with zero errors and zero warnings, except one
\* line-ending warning when both endings occur
C8_CleanGrid ==
  (/\ Validated
   /\ read_errors = {}
   /\ \E delimiter \in GridDelimiters : CleanGrid(raw_content, delimiter)) =>
    /\ errors = <<>>
    /\ results[1].valid
    /\ IF MixedEndings(raw_content)
       THEN Len(warnings) = 1 /\ IsLineEndingWarning(warnings[1])
       ELSE warnings = <<>>

\* a clean grid of three rows ended by CRLF
C8_Witness ==
  /\ Validated
  /\ read_errors = {}
  /\ \E delimiter \in GridDelimiters : CleanGrid(raw_content, delimiter)
  /\ Len(rows) = 3
  /\ HasSub(raw_content, <<"\r", "\n">>)
  /\ ~MixedEndings(raw_content)
  /\ results[1].error_count = 0
  /\ results[1].warning_count = 0

\* the delimiter the validator settled on
DetectedDelimiter == detected_dialect[1].delimiter

\* C9 as stated: for every file joining R >= 2 rows of the same field count
\* C >= 2 with one delimiter D out of comma, tab, semicolon, pipe, dialect
\* detection selects exactly D (here for files whose delimiter the scoring
\* stage finds, so that nothing rests on csv.Sniffer)
C9_RoundTrip ==
  \A delimiter \in GridDelimiters :
    (Validated /\ sniffer = <<"Unused">> /\ Joined(raw_content, delimiter, 2, 2)) =>
      DetectedDelimiter = delimiter

HasContent(field) == \E k \in 1..Len(field) : field[k] \notin Whitespace

NoDelimiterIn(field) == \A k \in 1..Len(field) : field[k] \notin GridDelimiters

\* a file of the amended C9, written with the delimiter
RoundTripFile(text, delimiter) ==
  /\ Joined(text, delimiter, 2, 2)
  /\ Len(text) <= DialectSampleSize
  /\ AllFields(FieldsOf(text, delimiter), NoDelimiterIn)
  /\ delimiter = "\t" =>
       \A i \in 1..Len(FieldsOf(text, delimiter)) :
         LET row == FieldsOf(text, delimiter)[i] IN
           HasContent(row[1]) /\ HasContent(row[Len(row)])

\* C9: for every file whose text is at most 8192 characters joining R >= 2
\* rows of the same field count C >= 2 with one delimiter D out of comma, tab,
\* semicolon, pipe, rows ended by LF or CRLF, where no field contains any of
\* the four delimiters or a line feed and, when D is the tab, the first and
\* last field of every row hold a non-whitespace character, dialect
\* detection selects exactly D
C9_RoundTripPlain ==
  \A delimiter \in GridDelimiters :
    (Validated /\ RoundTripFile(raw_content, delimiter)) =>
      /\ DetectedDelimiter = delimiter
      /\ is_tsv <=> delimiter = "\t"
      /\ results[1].stats.delimiter = DelimiterName(delimiter = "\t", <<Dialect(delimiter, TRUE, FALSE)>>)

\* three rows of empty fields joined by pipes
C9_Witness ==
  /\ Validated
  /\ RoundTripFile(raw_content, "|")
  /\ Len(WrittenRows(raw_content)) = 3
  /\ AllFields(FieldsOf(raw_content, "|"), LAMBDA field : field = <<>>)
  /\ DetectedDelimiter = "|"

(***************************************************************************)
(* Files whose rows differ in field count: short texts over a few lines, a *)
(* tall file with more mismatching rows than an error displays, and a wide *)
(* file with more columns than the stats keep.                             *)
(***************************************************************************)
\* lines per input file of the column checks
MaxColumnLines == 4

ColumnLines ==
  { <<"a", ",", "b", ",", "c">>, <<"1", ",", "2", ",", "3">>, <<"4", ",", "5">>,
    <<"i", "d", ",", "i", "d">> }

Repeat(x, n) == [i \in 1..n |-> x]

\* a header of two fields, 21 rows of one field, 20 rows of three fields
TallText ==
  Unlines(<< <<"a", ",", "b">> >> \o Repeat(<<"1">>, 21)
          \o Repeat(<<"1", ",", "2", ",", "3">>, 20))

\* the name of column j: "c" and two digits
WideName(j) == <<"c", chr(48 + (j \div 10)), chr(48 + (j % 10))>>

\* a header of 51 distinct names and two rows of 51 fields
WideText ==
  Unlines(<< Join([j \in 1..(MaxStatsHeaders + 1) |-> WideName(j)], <<",">>),
             Join(Repeat(<<"1">>, MaxStatsHeaders + 1), <<",">>),
             Join(Repeat(<<"2">>, MaxStatsHeaders + 1), <<",">>) >>)

\* the same below a title line
WidePreambleText == <<"t", "\n">> \o WideText

InitColumns ==
  \/ InitOther
  \/ InitFatal
  \/ InitContent(TextsOf(ColumnLines, MaxColumnLines)
                   \cup {TallText, WideText, WidePreambleText}, {"Write"})

SpecColumns == InitColumns /\ [][Next]_vars

\* the number of parsed rows with c fields
RowsWith(c) == Cardinality({i \in 1..Len(rows) : Len(rows[i]) = c})

\* a field count held by more than half of the rows that differs from row 1's
IsPreambleMode(c) == 2 * RowsWith(c) > Len(rows) /\ c # Len(rows[1])

PreambleInferred == \E i \in 1..Len(rows) : IsPreambleMode(Len(rows[i]))

\* the expected column count: the mode when a preamble is inferred, else row 1's count
ExpectedColumns ==
  IF PreambleInferred
  THEN Len(rows[CHOOSE i \in 1..Len(rows) : IsPreambleMode(Len(rows[i]))])
  ELSE Len(rows[1])

\* the rows before the first row with the expected count, when a preamble is inferred
PreambleRowCount ==
  IF PreambleInferred
  THEN Cardinality({i \in 1..Len(rows) : \A j \in 1..i : Len(rows[j]) # ExpectedColumns})
  ELSE 0

\* the 1-indexed numbers, ascending, of the non-preamble rows with c fields
LinesWith(c) ==
  SelectSeq([i \in 1..Len(rows) |-> i], LAMBDA i : i > PreambleRowCount /\ Len(rows[i]) = c)

\* the field counts of the non-preamble rows that differ from the expected one
MismatchedCounts ==
  { Len(rows[i]) : i \in (PreambleRowCount + 1)..Len(rows) } \ {ExpectedColumns}

\* the error reports the rows with c fields: its lines (the first 20 shown)
\* and their true number
ReportsCount(f, c) ==
  /\ f.message = <<"Rows with {} columns (expected {}): lines", c, ExpectedColumns,
                   <<Take(LinesWith(c), 20), Len(LinesWith(c)) > 20>> >>
  /\ GetExtra(f, "count") = Len(LinesWith(c))

\* C11: every non-preamble row whose field count differs from the expected
\* column count is reported and no other row is: there is exactly one
\* structure error per distinct observed field count, citing the 1-indexed
\* numbers of those rows (the first 20 displayed) and carrying their true
\* number; for "a,b,c\n1,2,3\n4,5\n" this is one error citing line 3, found
\* 2 columns, expected 3
C11_ColumnErrors ==
  (Validated /\ rows # <<>>) =>
    LET structure_errors == StructureFindings(results[1].errors) IN
      /\ Len(structure_errors) = Cardinality(MismatchedCounts)
      /\ \A c \in MismatchedCounts :
           Cardinality({k \in 1..Len(structure_errors) : ReportsCount(structure_errors[k], c)}) = 1
      /\ raw_content = Unlines(<< <<"a", ",", "b", ",", "c">>, <<"1", ",", "2", ",", "3">>,
                                  <<"4", ",", "5">> >>) =>
           /\ Len(structure_errors) = 1
           /\ structure_errors[1].message =
                <<"Rows with {} columns (expected {}): lines", 2, 3, <<<<3>>, FALSE>> >>

\* two errors for 21 rows of one field and 20 rows of three, the first
\* displaying 20 of its 21 lines
C11_Witness ==
  /\ Validated
  /\ Len(rows) = 42
  /\ ~PreambleInferred
  /\ MismatchedCounts = {1, 3}
  /\ LET structure_errors == StructureFindings(results[1].errors) IN
       /\ Len(structure_errors) = 2
       /\ structure_errors[1].message[4] = <<[i \in 1..20 |-> i + 1], TRUE>>
       /\ GetExtra(structure_errors[1], "count") = 21
       /\ GetExtra(structure_errors[2], "count") = 20

(***************************************************************************)
(* Files given by their bytes: every short pattern of null and non-null    *)
(* bytes, byte-order marks followed by a few tails, ASCII texts encoded as *)
(* UTF-16LE, and buffers of ten or eleven two-byte units around the 0.4    *)
(* and 0.1 thresholds.                                                     *)
(***************************************************************************)
\* bytes per file of null / non-null patterns
MaxPatternBytes == 6

BytePatterns == UNION { [1..n -> {0, 97}] : n \in 0..MaxPatternBytes }

\* s[1] + s[2] + ... for a sequence of sequences
Concat(seqs) == FoldLeft(LAMBDA acc, x : acc \o x, <<>>, seqs)

\* text.encode("utf-16-le") for an ASCII text
Utf16LE(text) == Concat([i \in 1..Len(text) |-> <<ord(text[i]), 0>>])

PayloadTexts ==
  { Unlines(<< <<"a", ",", "b">>, <<"1", ",", "2">> >>),
    Unlines(<< <<"a", "\t", "b">>, <<"1", "\t", "2">> >>),
    <<"a", ",", "b", "\n", "NUL", ",", "2", "\n", "3", ",", "4", "\n">> }

\* the byte-order marks, in the order the detection tests them
ByteOrderMarks ==
  << <<"utf-32-le", <<255, 254, 0, 0>> >>, <<"utf-32-be", <<0, 0, 254, 255>> >>,
     <<"utf-16-le", <<255, 254>> >>, <<"utf-16-be", <<254, 255>> >>,
     <<"utf-8-sig", <<239, 187, 191>> >> >>

MarkedTails ==
  { <<>>, <<97>>, <<97, 0>>, <<0, 97>>, <<0, 0>>, <<97, 0, 0, 0>>, <<0, 0, 0, 97>>,
    <<97, 0, 97, 0, 97, 0, 97, 0>> }

MarkedFiles == { ByteOrderMarks[k][2] \o tail : k \in 1..Len(ByteOrderMarks), tail \in MarkedTails }

\* a buffer of two-byte units: nn of 00 00, le of 61 00, be of 00 61, aa of 61 61
UnitBuffer(nn, le, be, aa) ==
  Concat(Repeat(<<0, 0>>, nn) \o Repeat(<<97, 0>>, le) \o Repeat(<<0, 97>>, be)
         \o Repeat(<<97, 97>>, aa))

ThresholdFiles ==
  { UnitBuffer(0, 10, 0, 0), UnitBuffer(1, 9, 0, 0), UnitBuffer(1, 10, 0, 0),
    UnitBuffer(2, 9, 0, 0), UnitBuffer(0, 4, 0, 6), UnitBuffer(0, 5, 0, 5),
    UnitBuffer(0, 0, 4, 6), UnitBuffer(0, 0, 5, 5), UnitBuffer(1, 0, 9, 0),
    UnitBuffer(1, 0, 10, 0) }

ByteFiles ==
  BytePatterns \cup MarkedFiles \cup { Utf16LE(text) : text \in PayloadTexts }
    \cup ThresholdFiles

\* invocations on a file holding one of the byte sequences, read without I/O errors
InitBytes ==
  \/ InitOther
  \/ InitFatal
  \/ \E bytes \in ByteFiles :
       \E sniff \in SnifferFor(bytes, {}) :
         InitEnv(HookInput("Write", CsvPath), "ok", bytes, FALSE, {}, sniff)

SpecBytes == InitBytes /\ [][Next]_vars

\* the bytes are a non-empty ASCII text without NUL characters in UTF-16LE:
\* code unit by code unit a byte in 01..7F and a null byte, no byte-order mark
IsUtf16LEOfAscii(bytes) ==
  /\ bytes # <<>>
  /\ Len(bytes) % 2 = 0
  /\ \A i \in 1..Len(bytes) :
       IF i % 2 = 1 THEN bytes[i] \in 1..127 ELSE bytes[i] = 0

IsNullByteError(f) ==
  f.category = "encoding" /\ f.message[1] = "File contains null bytes at positions"

\* C12: for every file holding an ASCII payload encoded as UTF-16LE without
\* a byte-order mark, the report's encoding is utf-16-le, exactly one
\* warning is emitted, the encoding warning, and no null-byte error
C12_Utf16Payload ==
  (Validated /\ read_errors = {} /\ IsUtf16LEOfAscii(file_bytes)) =>
    LET r == results[1] IN
      /\ r.stats.encoding = "utf-16-le"
      /\ Len(r.warnings) = 1
      /\ r.warnings[1].category = "encoding"
      /\ \A i \in 1..Len(r.errors) : ~IsNullByteError(r.errors[i])

(***************************************************************************)
(* Blank files and files the record parser gives up on.                    *)
(***************************************************************************)
\* lines per input file
MaxEdgeLines == 3

\* an empty line, a blank line, a header with an empty name, a line with a
\* carriage return inside, a line opening a quoted field it never closes
EdgeLines ==
  { <<>>, <<" ", " ">>, <<",", "b">>, <<"x", "\r", "y", ",", "z">>, <<"\"", "q", ",", "r">> }

InitEdge ==
  \/ InitOther
  \/ InitFatal
  \/ InitContent(TextsOf(EdgeLines, MaxEdgeLines), {"Write"})

SpecEdge == InitEdge /\ [][Next]_vars

\* "\n\n  \n"
WhitespaceOnly == <<"\n", "\n", " ", " ", "\n">>

\* C13: validating the whitespace-only input "\n\n  \n" returns a complete
\* report whose error list holds exactly one finding, a content error with
\* the message "File is empty or contains only whitespace"
C13_WhitespaceOnly ==
  (Validated /\ read_errors = {} /\ file_bytes = AsciiBytes(WhitespaceOnly)) =>
    LET r == results[1] IN
      /\ r.error_count = 1
      /\ Len(r.errors) = 1
      /\ r.errors[1].category = "content"
      /\ r.errors[1].message = <<"File is empty or contains only whitespace">>

IsParsingError(f) == f.category = "parsing"

\* the reader's state after the first n events of the validated text
ReaderAfter(n) ==
  FoldLeft(LAMBDA r, event : ReadEvent(r, event, detected_dialect[1]), ReaderStart,
           Take(ReaderEvents(raw_content), n))

IsPrefixOf(s, t) == Len(s) <= Len(t) /\ s = Take(t, Len(s))

ParseFailed == \E i \in 1..Len(errors) : IsParsingError(errors[i])

\* C18: a parse failure never aborts validation: at most one parsing error
\* per run; the rows the reader had produced at any point before the failure
\* are kept, in order, and nothing else is; the later checks run on those
\* rows (the header check's errors follow the parsing error) and a complete
\* report of the kept rows and of all findings is returned
C18_ParseFailure ==
  Validated /\ read_errors = {} =>
    LET r == results[1]
        at == Indices(r.errors, IsParsingError)
        events == ReaderEvents(raw_content)
        good == {n \in 0..Len(events) : ReaderAfter(n).error = None}
        last == CHOOSE n \in good : \A m \in good : m <= n
        later == Drop(r.errors, at[1])
    IN /\ Len(at) <= 1
       /\ \A n \in good : IsPrefixOf(ReaderAfter(n).rows, rows)
       /\ Len(at) = 1 =>
            /\ last < Len(events)
            /\ rows = ReaderAfter(last).rows
            /\ r.stats.total_rows = Len(rows)
            /\ r.errors = errors /\ r.error_count = Len(errors) /\ ~r.valid
            /\ IF rows = <<>>
               THEN later # <<>> /\ later[1].message = <<"No headers found (file may be empty)">>
               ELSE IsPrefixOf(HeaderErrors(rows[1], <<>>), later)
       /\ Len(at) = 0 => good = 0..Len(events)

\* the parser failed after it had produced a row whose header check found an
\* error, which follows the parsing error in the report
C18_Witness ==
  /\ Validated /\ read_errors = {}
  /\ ParseFailed
  /\ Len(rows) >= 1
  /\ \E i \in 1..Len(results[1].errors) :
       /\ IsParsingError(results[1].errors[i])
       /\ i < Len(results[1].errors)
       /\ results[1].errors[i + 1].category = "header"

(***************************************************************************)
(* Findings about the final header and the rows below it.                  *)
(***************************************************************************)
\* the position in rows of the final header: the promoted row when a
\* preamble was detected, otherwise row 1
HeaderRow == IF metadata_rows_detected THEN metadata_row_count + 1 ELSE 1

\* the rows below the final header
DataRows == Drop(rows, HeaderRow)

\* the classes of the non-empty cells of column j in the data rows
ClassesOf(j) ==
  { CellType(Strip(DataRows[i][j])) : i \in {k \in 1..Len(DataRows) : j <= Len(DataRows[k])} }
    \ {"empty"}

IsMixedTypeWarning(f, j) == f.category = "data_type" /\ f.column = <<j>>

\* C14: each non-empty data cell has one class, by the precedence numeric,
\* date, boolean-like, text, and a column of the header gets a mixed-type
\* warning exactly when its non-empty data cells span more than one class;
\* empty cells never cause a flag
C14_MixedTypes ==
  (Validated /\ read_errors = {} /\ rows # <<>>) =>
    \A j \in 1..Len(headers) :
      (\E i \in 1..Len(results[1].warnings) : IsMixedTypeWarning(results[1].warnings[i], j))
        <=> Cardinality(ClassesOf(j)) > 1

DelimiterNames == {"comma", "tab", "semicolon", "pipe", "unknown"}

\* C15: in every report, whichever way the dialect was chosen, stats.delimiter
\* is one of comma, tab, semicolon, pipe, unknown, and stats.format is TSV
\* exactly when stats.delimiter is tab, CSV otherwise
C15_DelimiterNames ==
  results # None =>
    LET stats == results[1].stats IN
      /\ stats.delimiter \in DelimiterNames
      /\ stats.format = (IF stats.delimiter = "tab" THEN "TSV" ELSE "CSV")

\* the messages of the findings of category "header", in order
HeaderMessages(findings) ==
  LET found == SelectSeq(findings, LAMBDA f : f.category = "header")
  IN [k \in 1..Len(found) |-> found[k].message]

\* C16: when a preamble is detected and a later row is promoted to header,
\* the header checks (empty names, exact duplicates, near-duplicates,
\* reserved names) are recomputed against the promoted row: the header
\* findings of the final report describe the promoted header
C16_HeaderRecomputed ==
  (Validated /\ read_errors = {} /\ metadata_rows_detected) =>
    /\ HeaderMessages(results[1].errors) = HeaderMessages(HeaderErrors(headers, <<>>))
    /\ HeaderMessages(results[1].warnings) = HeaderMessages(HeaderWarnings(headers, <<>>))

\* the final header: the promoted row when a preamble was detected,
\* otherwise row 1, and none when nothing was parsed
FinalHeader == IF rows = <<>> THEN <<>> ELSE rows[HeaderRow]

\* C17: in every report stats.total_columns is the field count of the final
\* header (0 when there is none), stats.headers is the prefix of the final
\* header of length at most 50, and stats.total_rows is the number of
\* parsed rows, preamble rows included
C17_FinalStats ==
  results # None =>
    LET stats == results[1].stats IN
      /\ stats.total_columns = Len(FinalHeader)
      /\ stats.headers = Take(FinalHeader, MaxStatsHeaders)
      /\ Len(stats.headers) <= MaxStatsHeaders
      /\ stats.total_rows = Len(rows)
      /\ metadata_rows_detected =>
           /\ metadata_row_count \in 1..(Len(rows) - 1)
           /\ stats.total_rows > metadata_row_count

\* a report on a file with a preamble row and a promoted header of more
\* than 50 names
C17_Witness ==
  /\ Validated /\ read_errors = {}
  /\ metadata_rows_detected /\ metadata_row_count = 1
  /\ rows[1] # rows[2]
  /\ results[1].stats.total_columns = MaxStatsHeaders + 1
  /\ results[1].stats.headers = Take(rows[2], MaxStatsHeaders)
  /\ results[1].stats.total_rows = 4

(***************************************************************************)
(* The encoding a file's first bytes are classified as.                    *)
(***************************************************************************)
\* the bytes the detection looks at
RawBytes == Take(file_bytes, DetectionReadSize)

\* the byte-order marks the buffer starts with, by position in ByteOrderMarks
MarksOf(bytes) == {k \in 1..Len(ByteOrderMarks) : StartsWith(bytes, ByteOrderMarks[k][2])}

\* the file was opened and every read attempt ran without an I/O error
ReadDone ==
  /\ file_status = "ok" /\ ~open_error /\ read_errors = {}
  /\ pc \notin {"main", "check_file_exists", "read_file"}
  /\ tool_name \in ValidatedTools

\* C19: byte-order marks are tested in the order UTF-32LE, UTF-32BE, UTF-16LE,
\* UTF-16BE, UTF-8 with BOM and the first match decides, whatever the null
\* bytes after it; a buffer starting with FF FE 00 00 is classified utf-32-le
\* and never utf-16-le; a file read under a mark's encoding is read as the
\* first matching mark says
C19_MarkPriority ==
  (file_status = "ok" /\ MarksOf(RawBytes) # {}) =>
    LET first == CHOOSE k \in MarksOf(RawBytes) : \A m \in MarksOf(RawBytes) : k <= m
        encoding == ByteOrderMarks[first][1]
    IN /\ _detect_encoding_from_bytes(RawBytes) = encoding
       /\ EncodingsToTry(file_bytes) = <<encoding>> \o FallbackEncodings
       /\ StartsWith(RawBytes, <<255, 254, 0, 0>>) => encoding = "utf-32-le"
       /\ ReadDone =>
            /\ detected_encoding \in {encoding} \cup {FallbackEncodings[k] : k \in 1..Len(FallbackEncodings)}
            /\ StartsWith(RawBytes, <<255, 254, 0, 0>>) => detected_encoding # "utf-16-le"
            /\ Decode(file_bytes, encoding) # DecodeError => detected_encoding = encoding

\* a validated file that starts with FF FE 00 00, whose bytes after the mark
\* have the null pattern of UTF-16, reported as utf-32-le
C19_Witness ==
  /\ Validated /\ read_errors = {}
  /\ StartsWith(file_bytes, <<255, 254, 0, 0>>)
  /\ Len(file_bytes) > 4
  /\ results[1].stats.encoding = "utf-32-le"

\* the sample of the null-byte heuristic
NullSample(bytes) == Take(bytes, NullSampleLimit)

\* the 0-based offsets of one parity in the sample, and those holding a null byte
OffsetsOf(bytes, parity) == {i \in 0..(Len(NullSample(bytes)) - 1) : i % 2 = parity}

NullOffsets(bytes, parity) == {i \in OffsetsOf(bytes, parity) : bytes[i + 1] = 0}

\* nulls / offsets > 0.4 and nulls / offsets < 0.1, of the offsets of one
\* parity; neither holds of a sample without an offset of that parity
FractionAbove(bytes, parity) ==
  /\ OffsetsOf(bytes, parity) # {}
  /\ 10 * Cardinality(NullOffsets(bytes, parity)) > 4 * Cardinality(OffsetsOf(bytes, parity))

FractionBelow(bytes, parity) ==
  /\ OffsetsOf(bytes, parity) # {}
  /\ 10 * Cardinality(NullOffsets(bytes, parity)) < Cardinality(OffsetsOf(bytes, parity))

\* C20: a buffer without a byte-order mark is classified, over its first up
\* to 1000 bytes, utf-16-le exactly when the fraction of null bytes among the
\* odd offsets exceeds 0.4 and the fraction among the even offsets is below
\* 0.1, utf-16-be exactly when the even fraction exceeds 0.4 and the odd one
\* is below 0.1, and is unclassified otherwise, each fraction taken over the
\* number of offsets of that parity in the sample
C20_NullHeuristic ==
  (file_status = "ok" /\ MarksOf(RawBytes) = {}) =>
    LET detected == _detect_encoding_from_bytes(RawBytes)
        le == FractionAbove(RawBytes, 1) /\ FractionBelow(RawBytes, 0)
        be == FractionAbove(RawBytes, 0) /\ FractionBelow(RawBytes, 1)
    IN /\ detected = "utf-16-le" <=> le
       /\ detected = "utf-16-be" <=> be
       /\ detected = NoEncoding <=> ~le /\ ~be

(***************************************************************************)
(* The read attempts.                                                      *)
(***************************************************************************)
\* bytes per short file
MaxShortBytes == 2

\* short files: ASCII, null and continuation bytes in every order,
\* and every byte-order mark before a short tail
ShortFiles ==
  UNION {[1..n -> {0, 97, 129}] : n \in 0..MaxShortBytes}
    \cup { ByteOrderMarks[k][2] \o tail :
             k \in 1..Len(ByteOrderMarks), tail \in {<<>>, <<97>>, <<97, 0>>, <<97, 0, 0, 0>>} }

\* invocations on a short file, read with or without I/O errors
InitShort ==
  \/ InitOther
  \/ \E bytes \in ShortFiles :
       \E sniff \in SnifferFor(bytes, {}) :
         InitEnv(HookInput("Write", CsvPath), "ok", bytes, FALSE, {}, sniff)
  \/ \E bytes \in {UndecodableFile, <<255, 254, 97, 0>>} :
       \E failures \in SUBSET (1..Len(FallbackEncodings)) \ {{}} :
         \E sniff \in SnifferFor(bytes, failures) :
           InitEnv(HookInput("Write", CsvPath), "ok", bytes, FALSE, failures, sniff)

\* the process is sequential and read_file waits for nothing: once the call
\* is reached it runs
SpecDecode == InitShort /\ [][Next]_vars /\ WF_vars(read_file)

\* the fixed order of attempts: the byte-signal encoding if one fired, then
\* the five fallbacks
AttemptOrder ==
  (IF _detect_encoding_from_bytes(RawBytes) # NoEncoding
   THEN <<_detect_encoding_from_bytes(RawBytes)>> ELSE <<>>)
  \o <<"utf-8", "utf-8-sig", "latin-1", "cp1252", "iso-8859-1">>

\* the attempts that read the file: no I/O error and the bytes decode
Succeeding ==
  {k \in 1..Len(AttemptOrder) :
     k \notin read_errors /\ Decode(file_bytes, AttemptOrder[k]) # DecodeError}

\* read_file has run on a file that exists and was opened
AfterRead ==
  /\ file_status = "ok" /\ ~open_error
  /\ pc \notin {"main", "check_file_exists", "read_file"}
  /\ pc = "done" => results # None

IsEncodingWarning(f) ==
  /\ f.category = "encoding"
  /\ f.message[1] \in {"File is {} encoded", "File not in UTF-8 encoding, detected"}

IsAttemptError(f) == f.category = "file" /\ f.message[1] = "Error reading file with"

\* what read_file leaves behind when attempt k is the first to succeed
DecodedBy(k) ==
  /\ detected_encoding = AttemptOrder[k]
  /\ results # None => results[1].stats.encoding = AttemptOrder[k]
  /\ raw_content = ToText(Decode(file_bytes, AttemptOrder[k])[2])
  \* no later attempt ran: the only attempt errors are those of earlier attempts
  /\ Len(Indices(errors, IsAttemptError)) = Cardinality({j \in read_errors : j < k})
  /\ Len(Indices(warnings, IsEncodingWarning))
       = (IF AttemptOrder[k] \in {"utf-8", "utf-8-sig"} THEN 0 ELSE 1)
  \* the warning is added at that point: it is there when read_file returns
  /\ pc = "check_encoding_issues" =>
       warnings = (IF AttemptOrder[k] \in {"utf-8", "utf-8-sig"} THEN <<>>
                   ELSE EncodingWarning(<<>>, AttemptOrder[k]))

DecodingInOrder ==
  AfterRead =>
    /\ read_errors = {} => Succeeding # {}
    /\ \A k \in 1..Len(AttemptOrder) :
         AttemptOrder[k] = "latin-1" => k \in Succeeding \/ k \in read_errors
    /\ Succeeding # {} =>
         DecodedBy(CHOOSE k \in Succeeding : \A m \in Succeeding : k <= m)

\* C21: decoding always terminates: the encodings are tried in the order
\* byte-signal encoding (if one fired), utf-8, utf-8-sig, latin-1, cp1252,
\* iso-8859-1; the first attempt that succeeds gives stats.encoding and no
\* later one runs; latin-1 decodes every byte sequence, so when no attempt
\* raises an I/O error some encoding succeeds; an encoding other than utf-8
\* and utf-8-sig adds exactly one encoding warning at that point
C21_Decoding ==
  /\ []DecodingInOrder
  /\ (pc = "read_file") ~> (pc \in {"check_encoding_issues", "get_results"})

\* the byte signal fired but its encoding and both UTF-8 variants failed to
\* decode the file, which latin-1 then read, with one encoding warning
C21_Witness ==
  /\ Validated /\ read_errors = {}
  /\ _detect_encoding_from_bytes(RawBytes) # NoEncoding
  /\ Succeeding # {} /\ \A k \in Succeeding : k >= 4
  /\ results[1].stats.encoding = "latin-1"
  /\ Len(Indices(results[1].warnings, IsEncodingWarning)) = 1

(***************************************************************************)
(* Files whose lines favour different delimiters.                          *)
(***************************************************************************)
\* lines per input file
MaxScoreLines == 3

\* one comma and one semicolon; three tabs; one tab and one pipe
ScoreLines ==
  { <<"a", ",", "b", ";", "c">>, <<"a", "\t", "b", "\t", "c", "\t", "d">>,
    <<"a", "\t", "b", "|", "c">> }

\* a line of one comma and a line of thirty; two lines of thirty commas
UnevenText == Unlines(<< <<"a", ",", "b", ";", "c">>, Repeat(",", 30) >>)

EvenText == Unlines(<< Repeat(",", 30), Repeat(",", 30) >>)

InitScore ==
  \/ InitOther
  \/ InitFatal
  \/ InitContent(TextsOf(ScoreLines, MaxScoreLines) \cup {UnevenText, EvenText}, {"Write"})

SpecScore == InitScore /\ [][Next]_vars

\* the text the scoring stage looks at and its candidate lines
ScoredLines == CandidateLines(Take(raw_content, DialectSampleSize))

\* the candidate lines a delimiter occurs in
LinesHaving(d) == {i \in 1..Len(ScoredLines) : HasChar(ScoredLines[i], d)}

\* the four candidates, by position in the order comma, tab, semicolon, pipe,
\* that occur in at least two candidate lines
Eligible == {k \in 1..4 : Cardinality(LinesHaving(<<",", "\t", ";", "|">>[k])) >= 2}

ScoreOf(k) == DelimiterScore(<<",", "\t", ";", "|">>[k], ScoredLines)[1]

\* the earliest eligible candidate of the highest score, if that score
\* exceeds 1
Winner ==
  LET best == {k \in Eligible : \A m \in Eligible : ~FracGT(ScoreOf(m), ScoreOf(k))}
      first == CHOOSE k \in best : \A m \in best : k <= m
  IN IF Eligible # {} /\ FracGT(ScoreOf(first), Frac(1, 1))
     THEN << <<",", "\t", ";", "|">>[first] >>
     ELSE None

\* every candidate line that has the delimiter has it count times
SameCount(d, count) == \A i \in LinesHaving(d) : CountChar(ScoredLines[i], d) = count

\* the sum of the delimiter's counts over the lines that have it
TotalCount(d) == SumSeq([i \in 1..Len(ScoredLines) |-> CountChar(ScoredLines[i], d)])

\* the dialect was chosen for a file that was read
DialectChosen ==
  /\ file_status = "ok" /\ ~open_error /\ read_errors = {}
  /\ detected_dialect # None

\* C22: the scoring stage returns the candidate of the highest score among
\* comma, tab, semicolon, pipe, of those that occur in at least two candidate
\* lines, the earlier one when scores are equal, and only if that score
\* exceeds 1; otherwise none.  With identical non-zero counts per line the
\* score is count x 100 x (lines with the delimiter / candidate lines), and
\* the tab's score is doubled when its average non-zero count is at least 3
C22_Scoring ==
  DialectChosen =>
    /\ _detect_delimiter(Take(raw_content, DialectSampleSize)) = Winner
    /\ Winner # None => detected_dialect[1].delimiter = Winner[1]
    /\ \A k \in Eligible, count \in 1..30 :
         LET d == <<",", "\t", ";", "|">>[k]
             doubled == d = "\t" /\ TotalCount(d) >= 3 * Cardinality(LinesHaving(d))
         IN SameCount(d, count) =>
              /\ ScoreOf(k).num * Len(ScoredLines) =
                   ScoreOf(k).den * count * 100 * Cardinality(LinesHaving(d))
                     * (IF doubled THEN 2 ELSE 1)
              /\ doubled <=> (d = "\t" /\ count >= 3)

\* comma and semicolon score the same and the comma, the earlier, is chosen
C22_Witness ==
  /\ Validated /\ DialectChosen
  /\ {1, 3} \subseteq Eligible
  /\ ~FracGT(ScoreOf(1), ScoreOf(3)) /\ ~FracGT(ScoreOf(3), ScoreOf(1))
  /\ Winner = <<",">>
  /\ results[1].stats.delimiter = "comma"

IsTsvWarning(f) ==
  f.category = "format" /\ f.message = <<"Detected tab-separated values (TSV) format">>

IsNoDialectWarning(f) ==
  /\ f.category = "format"
  /\ f.message = <<"Could not auto-detect CSV dialect, assuming comma-separated">>

\* the dialect the fallback chain gives: the scoring winner, else the
\* sniffer's answer, else comma
ChainDialect ==
  IF Winner # None THEN Dialect(Winner[1], TRUE, FALSE)
  ELSE IF sniffer[1] = "Dialect" THEN sniffer[2]
  ELSE Dialect(",", TRUE, FALSE)

DialectByChain ==
  /\ detected_dialect = None \/ Len(detected_dialect) = 1
  /\ pc \in {"main", "check_file_exists", "read_file", "check_encoding_issues", "check_bom",
             "check_line_endings", "check_empty_file", "detect_dialect"}
       => detected_dialect = None /\ Len(Indices(warnings, IsTsvWarning)) = 0
  /\ pc = "parse_csv" => detected_dialect # None /\ rows = <<>>
  /\ DialectChosen =>
       /\ detected_dialect[1] = ChainDialect
       /\ Len(Indices(warnings, IsNoDialectWarning))
            = (IF Winner = None /\ sniffer[1] # "Dialect" THEN 1 ELSE 0)
       /\ Len(Indices(warnings, IsTsvWarning))
            = (IF detected_dialect[1].delimiter = "\t" THEN 1 ELSE 0)
       /\ is_tsv <=> detected_dialect[1].delimiter = "\t"

\* C23: dialect detection ends with exactly one dialect set before parsing
\* starts, by the chain scoring winner, else the sniffer's result, else
\* comma; the "could not auto-detect" warning comes only in the last case,
\* the TSV warning exactly once and exactly when the chosen delimiter is the
\* tab; only detect_dialect sets the dialect
C23_DialectChain ==
  /\ []DialectByChain
  /\ [][detected_dialect' # detected_dialect =>
          pc = "detect_dialect" /\ pc' = "parse_csv" /\ detected_dialect = None]_vars

\* the scoring stage found nothing, the sniffer answered with the tab, and
\* the report carries one TSV warning
C23_Witness ==
  /\ Validated /\ DialectChosen
  /\ Winner = None
  /\ sniffer[1] = "Dialect" /\ sniffer[2].delimiter = "\t"
  /\ Len(Indices(results[1].warnings, IsTsvWarning)) = 1
  /\ Len(Indices(results[1].warnings, IsNoDialectWarning)) = 0
  /\ results[1].stats.format = "TSV"

(***************************************************************************)
(* Files whose first rows are a preamble that the row scans have something *)
(* to say about: a cell with leading whitespace, a blank row, a cell with  *)
(* a vertical tab, and a field longer than max_reasonable_length.          *)
(***************************************************************************)
\* lines per file of the preamble scans
MaxScanLines == 4

ScanLines == { <<" ", "t">>, <<"x", "VT", "y">>, <<"a", ",", "b">> }

\* " t", " ", "x\x0by" and then four rows of two fields
MixedPreambleText ==
  Unlines(<< <<" ", "t">>, <<" ">>, <<"x", "VT", "y">> >> \o Repeat(<<"a", ",", "b">>, 4))

\* two rows of three fields, one field of max_reasonable_length + 1
\* characters, then six rows of two fields
LongPreambleText ==
  Unlines(Repeat(<<"p", ",", "q", ",", "r">>, 2) \o << Repeat("x", max_reasonable_length + 1) >>
          \o Repeat(<<"a", ",", "b">>, 6))

InitScan ==
  \/ InitOther
  \/ InitFatal
  \/ InitContent(TextsOf(ScanLines, MaxScanLines) \cup {MixedPreambleText, LongPreambleText},
                 {"Write"})

SpecScan == InitScan /\ [][Next]_vars

\* (row, column) of every parsed cell, preamble rows included
AllRowCells == UNION { { <<i, j>> : j \in 1..Len(rows[i]) } : i \in 1..Len(rows) }

\* the 1-indexed numbers of the rows, preamble rows included, without a
\* non-blank cell
BlankRows == { i \in 1..Len(rows) : \A j \in 1..Len(rows[i]) : Strip(rows[i][j]) = <<>> }

LeadingCells == { lc \in AllRowCells : rows[lc[1]][lc[2]] # LStrip(rows[lc[1]][lc[2]]) }

TrailingCells == { lc \in AllRowCells : rows[lc[1]][lc[2]] # RStrip(rows[lc[1]][lc[2]]) }

VerticalTabCells == { lc \in AllRowCells : HasChar(rows[lc[1]][lc[2]], "VT") }

LongCells == { lc \in AllRowCells : Len(rows[lc[1]][lc[2]]) > max_reasonable_length }

\* the warnings of a category whose message starts with the given words
WarningsOf(category, words) ==
  SelectSeq(results[1].warnings,
            LAMBDA f : /\ f.category = category
                       /\ SubSeq(f.message, 1, Len(words)) = words)

\* no such warning when no cell is concerned, else one warning carrying
\* their number at position k of its message
CountsCells(category, words, k, cells) ==
  LET found == WarningsOf(category, words) IN
    IF cells = {} THEN found = <<>>
    ELSE Len(found) = 1 /\ found[1].message[k] = Cardinality(cells)

\* C24: a preamble is inferred exactly when the most frequent field count is
\* held by strictly more than half of the parsed rows and differs from the
\* first row's count (at exactly half none is inferred and the expected
\* count stays the first row's); when inferred, the reported size is the
\* number of rows before the first row with the modal count, at least 1,
\* no column-count error cites those rows, and the empty-row, whitespace,
\* special-character and field-length checks still scan them
C24_PreambleScan ==
  (Validated /\ rows # <<>>) =>
    LET structure_warnings == StructureFindings(results[1].warnings)
        structure_errors   == StructureFindings(results[1].errors)
        empty_rows         == WarningsOf("content", <<"Empty rows found at lines">>)
    IN /\ metadata_rows_detected <=> PreambleInferred
       /\ metadata_row_count = PreambleRowCount
       /\ (\A i \in 1..Len(rows) : 2 * RowsWith(Len(rows[i])) <= Len(rows))
            => ~metadata_rows_detected
       /\ \A k \in 1..Len(structure_errors) :
            /\ structure_errors[k].message[3]
                 = (IF metadata_rows_detected THEN ExpectedColumns ELSE Len(rows[1]))
            /\ \A n \in 1..Len(structure_errors[k].message[4][1]) :
                 structure_errors[k].message[4][1][n] > metadata_row_count
       /\ IF PreambleInferred
          THEN /\ metadata_row_count >= 1
               /\ \A i \in 1..metadata_row_count : Len(rows[i]) # ExpectedColumns
               /\ Len(rows[metadata_row_count + 1]) = ExpectedColumns
               /\ Len(structure_warnings) = 1
               /\ structure_warnings[1].message[2] = metadata_row_count
               /\ GetExtra(structure_warnings[1], "metadata_rows") = metadata_row_count
          ELSE structure_warnings = <<>>
       /\ IF BlankRows = {} THEN empty_rows = <<>>
          ELSE /\ Len(empty_rows) = 1
               /\ GetExtra(empty_rows[1], "count") = Cardinality(BlankRows)
               /\ \A i \in BlankRows :
                    i <= 20 => \E n \in 1..Len(empty_rows[1].message[2][1]) :
                                 empty_rows[1].message[2][1][n] = i
       /\ CountsCells("whitespace", <<"Cells with leading whitespace">>, 2, LeadingCells)
       /\ CountsCells("whitespace", <<"Cells with trailing whitespace">>, 2, TrailingCells)
       /\ CountsCells("special_chars", <<"Found {} in {} cells", "vertical tab">>, 3,
                      VerticalTabCells)
       /\ CountsCells("field_length", <<"Found {} fields exceeding {} characters">>, 2, LongCells)

\* three preamble rows before four rows of two fields: the preamble rows
\* draw the empty-row, whitespace and vertical-tab warnings and no
\* column-count error
C24_Witness ==
  /\ Validated
  /\ raw_content = MixedPreambleText
  /\ PreambleInferred /\ metadata_row_count = 3
  /\ BlankRows = {2}
  /\ LeadingCells = {<<1, 1>>, <<2, 1>>}
  /\ VerticalTabCells = {<<3, 1>>}
  /\ StructureFindings(results[1].errors) = <<>>
  /\ Len(WarningsOf("content", <<"Empty rows found at lines">>)) = 1
  /\ Len(WarningsOf("special_chars", <<"Found {} in {} cells", "vertical tab">>)) = 1

\* a preamble row of one over-long field is reported by the field-length check
C24_LongWitness ==
  /\ Validated
  /\ raw_content = LongPreambleText
  /\ PreambleInferred /\ metadata_row_count = 3
  /\ LongCells = {<<3, 1>>}
  /\ Len(WarningsOf("field_length", <<"Found {} fields exceeding {} characters">>)) = 1

\* the parsed rows other than the final header
RowsExceptHeader == SubSeq(rows, 1, HeaderRow - 1) \o DataRows

\* the rows of rs that repeat an earlier row of rs
DuplicateTotal(rs) == Len(rs) - Cardinality({ rs[i] : i \in 1..Len(rs) })

\* the distinct rows of rs that occur more than once
DuplicatePatterns(rs) ==
  Cardinality({ rs[i] : i \in { k \in 1..Len(rs) : \E n \in 1..Len(rs) : n # k /\ rs[n] = rs[k] } })

\* the duplicate-row warning counts the rows of rs and nothing else
ReportsDuplicates(rs) ==
  LET found == SelectSeq(results[1].warnings, LAMBDA f : f.category = "duplicates") IN
    IF DuplicateTotal(rs) = 0 THEN found = <<>>
    ELSE /\ Len(found) = 1
         /\ found[1].message[2] = DuplicateTotal(rs)
         /\ found[1].message[3] = DuplicatePatterns(rs)

\* the classes of the non-empty cells of column j in rs
ClassesIn(rs, j) ==
  { CellType(Strip(rs[i][j])) : i \in { k \in 1..Len(rs) : j <= Len(rs[k]) } } \ {"empty"}

\* the mixed-type warnings classify the cells of rs and nothing else, and
\* name their columns by the final header
ReportsTypes(rs) ==
  \A j \in 1..Len(FinalHeader) :
    LET found == SelectSeq(results[1].warnings, LAMBDA f : IsMixedTypeWarning(f, j)) IN
      IF Cardinality(ClassesIn(rs, j)) > 1
      THEN Len(found) = 1 /\ found[1].message[2] = FinalHeader[j]
      ELSE found = <<>>

\* every high-missing-rate warning names a column of the final header whose
\* missing count over rs it carries
ReportsMissing(rs) ==
  \A i \in 1..Len(results[1].warnings) :
    LET f == results[1].warnings[i] IN
      (f.category = "missing_values" /\ f.message[1] = "Column {} has {} missing values") =>
        \E j \in 1..Len(FinalHeader) :
          /\ f.message[2] = FinalHeader[j]
          /\ f.message[3] = MissingCount(j, rs)
          /\ f.message[4] = Len(rs)

\* C25: when a preamble was detected and a later row promoted to header, the
\* type-consistency, missing-value and duplicate-row checks treat no cell
\* of the promoted header row as data, and the column names in their
\* messages are those of the promoted header; the data are the rows below
\* the promoted header or, at most, every row but the promoted header
C25_HeaderNotData ==
  (Validated /\ read_errors = {} /\ metadata_rows_detected) =>
    \E rs \in {DataRows, RowsExceptHeader} :
      /\ ReportsDuplicates(rs)
      /\ ReportsTypes(rs)
      /\ ReportsMissing(rs)

(***************************************************************************)
(* Files with null spellings under headers of equal and of different names *)
(***************************************************************************)
\* lines per file of the missing-value files
MaxMissingLines == 3

MissingLines ==
  { <<"a", ",", "a">>, <<"a", ",", "b">>, <<"N", "A", ",", "-">>, <<"N", "A", ",", "1">> }

InitMissing ==
  \/ InitOther
  \/ InitFatal
  \/ InitContent(TextsOf(MissingLines, MaxMissingLines), {"Write"})

SpecMissing == InitMissing /\ [][Next]_vars

\* the rows below row 1 that hold a null token in column j
NullCells(j) ==
  { i \in 2..Len(rows) : j <= Len(rows[i]) /\ Strip(rows[i][j]) \in null_representations }

\* the columns of the header with a null token in more than half of the data rows
HighMissingColumns == { j \in 1..Len(headers) : 2 * Cardinality(NullCells(j)) > Len(rows) - 1 }

\* the null spellings used anywhere below row 1
SpellingsUsed == UNION { { Strip(rows[i][j]) : i \in NullCells(j) } : j \in 1..Len(headers) }

IsHighMissingWarning(f) ==
  f.category = "missing_values" /\ f.message[1] = "Column {} has {} missing values"

IsInconsistentNullWarning(f) ==
  f.category = "missing_values" /\ f.message[1] = "Inconsistent null value representations used"

\* C26: for a file without preamble whose rows all have the header's width,
\* there is one high-missing-rate warning for every column index with a null
\* token in more than 50% of the data rows and none for any other column
\* (none at exactly 50%), column by column even under equal header names,
\* and the inconsistent-representation warning is there exactly when more
\* than one null spelling is used in the file
C26_MissingRates ==
  (/\ Validated /\ read_errors = {} /\ Len(rows) >= 2 /\ ~metadata_rows_detected
   /\ \A i \in 1..Len(rows) : Len(rows[i]) = Len(headers)) =>
    LET found == SelectSeq(results[1].warnings, IsHighMissingWarning) IN
      /\ Len(found) = Cardinality(HighMissingColumns)
      /\ \A j \in HighMissingColumns :
           \E k \in 1..Len(found) : /\ found[k].message[2] = headers[j]
                                    /\ found[k].message[3] = Cardinality(NullCells(j))
      /\ (\E i \in 1..Len(results[1].warnings) : IsInconsistentNullWarning(results[1].warnings[i]))
           <=> Cardinality(SpellingsUsed) > 1

(***************************************************************************)
(* Files with quote characters inside, around and next to their fields.    *)
(***************************************************************************)
\* lines per file of the quoting files
MaxQuoteLines == 3

\* "",a"b"c   a"b,c   "a","b"   x,y
QuoteLines ==
  { <<"\"", "\"", ",", "a", "\"", "b", "\"", "c">>, <<"a", "\"", "b", ",", "c">>,
    <<"\"", "a", "\"", ",", "\"", "b", "\"">>, <<"x", ",", "y">> }

InitQuote ==
  \/ InitOther
  \/ InitFatal
  \/ InitContent(TextsOf(QuoteLines, MaxQuoteLines), {"Write"})

SpecQuote == InitQuote /\ [][Next]_vars

\* the physical lines with a comma-separated piece that, trimmed, holds a
\* quote and does not both start and end with one
SmellyLines ==
  { n \in 1..Len(lines) :
      \E k \in 1..Len(Split(lines[n], ",")) :
        LET piece == Strip(Split(lines[n], ",")[k]) IN
          /\ HasChar(piece, "\"")
          /\ ~(piece[1] = "\"" /\ piece[Len(piece)] = "\"") }

IsUnescapedQuoteWarning(f, n) ==
  /\ f.category = "quoting"
  /\ f.message = <<"Potential unescaped quote in field">>
  /\ f.line = <<n>>

\* C27: whatever the quote count of a line and whatever the delimiter,
\* every physical line with a comma-separated piece that, trimmed, holds a
\* quote and does not both start and end with a quote gets a "potential
\* unescaped quote" warning
C27_UnescapedQuotes ==
  (Validated /\ read_errors = {} /\ rows # <<>>) =>
    \A n \in SmellyLines :
      \E i \in 1..Len(results[1].warnings) : IsUnescapedQuoteWarning(results[1].warnings[i], n)

\* the 1-based positions of the blank names of row 1
BlankNames == { i \in 1..Len(rows[1]) : Strip(rows[1][i]) = <<>> }

IsNearDuplicateWarning(f) ==
  f.category = "header" /\ f.message[1] = "Headers differ only by whitespace/case"

\* C28: the header check emits an error listing the 1-based indices of the
\* blank header names, an error for names that occur more than once
\* exactly, and a near-duplicate warning for a pair of names only when the
\* two are different strings that are equal after trimming and
\* lower-casing: identical names do not produce it
C28_HeaderCheck ==
  (Validated /\ read_errors = {} /\ rows # <<>>) =>
    LET header_errors   == SelectSeq(results[1].errors, LAMBDA f : f.category = "header")
        header_warnings == SelectSeq(results[1].warnings, IsNearDuplicateWarning)
    IN /\ (BlankNames # {}) <=>
            \E k \in 1..Len(header_errors) :
              /\ header_errors[k].message[1] = "Empty header(s) in column(s)"
              /\ { header_errors[k].message[2][n] : n \in 1..Len(header_errors[k].message[2]) }
                   = BlankNames
       /\ (\E i, j \in 1..Len(rows[1]) : i # j /\ rows[1][i] = rows[1][j] /\ i \notin BlankNames)
            => \E k \in 1..Len(header_errors) :
                 header_errors[k].message[1] = "Duplicate headers found"
       /\ \A k \in 1..Len(header_warnings) :
            LET w == header_warnings[k].message IN
              /\ w[2] = rows[1][w[3]] /\ w[4] = rows[1][w[5]]
              /\ w[2] # w[4]
              /\ Lower(Strip(w[2])) = Lower(Strip(w[4]))

\* the calls of validate (lines 56-82), in order
PipelineOrder ==
  <<"check_file_exists", "read_file", "check_encoding_issues", "check_bom",
    "check_line_endings", "check_empty_file", "detect_dialect", "parse_csv",
    "check_header_issues", "check_column_consistency", "check_empty_rows",
    "check_whitespace_issues", "check_quoting_issues", "check_data_type_consistency",
    "check_missing_values", "check_duplicate_rows", "check_special_characters",
    "check_field_length", "get_results">>

Position(check) == CHOOSE k \in 1..Len(PipelineOrder) : PipelineOrder[k] = check

\* the check a finding comes from, by its category and message
CheckOf(f) ==
  CASE f.category = "file" ->
         IF f.message[1] \in {"File does not exist", "Path is not a file", "File is not readable"}
         THEN "check_file_exists" ELSE "read_file"
    [] f.category = "encoding" ->
         IF f.message[1] = "File contains UTF-8 BOM (Byte Order Mark)" THEN "check_bom"
         ELSE IF f.message[1] \in {"File contains null bytes at positions",
                                   "File contains {} replacement characters (encoding errors)"}
         THEN "check_encoding_issues" ELSE "read_file"
    [] f.category = "format" ->
         IF f.message[1] = "Inconsistent line endings detected" THEN "check_line_endings"
         ELSE "detect_dialect"
    [] f.category = "content" ->
         IF f.message[1] = "File is empty or contains only whitespace" THEN "check_empty_file"
         ELSE "check_empty_rows"
    [] f.category = "parsing" -> "parse_csv"
    [] f.category = "header" -> "check_header_issues"
    [] f.category = "structure" -> "check_column_consistency"
    [] f.category = "whitespace" -> "check_whitespace_issues"
    [] f.category = "quoting" -> "check_quoting_issues"
    [] f.category = "data_type" -> "check_data_type_consistency"
    [] f.category = "missing_values" -> "check_missing_values"
    [] f.category = "duplicates" -> "check_duplicate_rows"
    [] f.category = "special_chars" -> "check_special_characters"
    [] f.category = "field_length" -> "check_field_length"

StructuralChecks ==
  {"check_header_issues", "check_column_consistency", "check_empty_rows", "check_duplicate_rows"}

ContentChecks ==
  {"check_whitespace_issues", "check_quoting_issues", "check_data_type_consistency",
   "check_missing_values", "check_special_characters", "check_field_length"}

\* no finding of a content check stands before a finding of a structural check
StructuralFirst(findings) ==
  \A i, j \in 1..Len(findings) :
    i < j => ~(CheckOf(findings[i]) \in ContentChecks /\ CheckOf(findings[j]) \in StructuralChecks)

\* C29 as stated: the header, column-count, empty-row and duplicate-row
\* checks all finish before the whitespace, quoting, type, missing-value,
\* special-character and field-length checks start, so in the error list
\* and in the warning list every structural finding precedes every finding
\* of a content check
C29_StructuralFirst == StructuralFirst(errors) /\ StructuralFirst(warnings)

\* the findings stand in the order of the checks they come from
InCheckOrder(findings) ==
  \A i, j \in 1..Len(findings) :
    i < j => Position(CheckOf(findings[i])) <= Position(CheckOf(findings[j]))

\* every finding comes from a check that has started
FromStartedChecks(findings) ==
  \A i \in 1..Len(findings) :
    InSeq(pc, PipelineOrder) => Position(CheckOf(findings[i])) < Position(pc)

FindingsInOrder ==
  /\ InCheckOrder(errors) /\ InCheckOrder(warnings)
  /\ FromStartedChecks(errors) /\ FromStartedChecks(warnings)

\* one call of validate follows the other, or validate returns early
\* from check_file_exists or read_file
PipelineStep ==
  (InSeq(pc, PipelineOrder) /\ pc' # pc) =>
    \/ pc # "get_results" /\ pc' = PipelineOrder[Position(pc) + 1]
    \/ pc \in {"check_file_exists", "read_file"} /\ pc' = "get_results"
    \/ pc = "get_results" /\ pc' = "report"

AppendOnly == IsPrefixOf(errors, errors') /\ IsPrefixOf(warnings, warnings')

\* C29, amended: the checks run in the order of PipelineOrder, the
\* duplicate-row check after the whitespace, quoting, type and missing-value
\* checks; within the error list and within the warning list the findings
\* stand in the order of the checks they come from, and findings are only
\* ever appended
C29_PipelineOrder ==
  /\ []FindingsInOrder
  /\ [][PipelineStep /\ AppendOnly]_vars

\* a report whose warnings come, in this order, from the column-count,
\* empty-row, whitespace, duplicate-row and special-character checks
C29_Witness ==
  /\ Validated
  /\ \E a, b, c, d, e \in 1..Len(results[1].warnings) :
       /\ a < b /\ b < c /\ c < d /\ d < e
       /\ CheckOf(results[1].warnings[a]) = "check_column_consistency"
       /\ CheckOf(results[1].warnings[b]) = "check_empty_rows"
       /\ CheckOf(results[1].warnings[c]) = "check_whitespace_issues"
       /\ CheckOf(results[1].warnings[d]) = "check_duplicate_rows"
       /\ CheckOf(results[1].warnings[e]) = "check_special_characters"

\* EF BB BF
Utf8Mark == <<239, 187, 191>>

IsBomWarning(f) ==
  f.category = "encoding" /\ f.message = <<"File contains UTF-8 BOM (Byte Order Mark)">>

\* C30: the byte-order-mark warning is emitted exactly when the bytes of the
\* file begin with the UTF-8 byte-order mark EF BB BF: every such file gets
\* it and no file without that mark, such as one that starts with a UTF-16
\* byte-order mark, gets it
C30_BomWarning ==
  (Validated /\ read_errors = {} /\ raw_content # <<>>) =>
    ((\E i \in 1..Len(results[1].warnings) : IsBomWarning(results[1].warnings[i]))
       <=> Take(file_bytes, 3) = Utf8Mark)

====
